---------------------------- MODULE Spec2Model ----------------------------
(***************************************************************************)
(* A model of fxbalu/xmlParser: the character-level tag and attribute      *)
(* readers (tag.c, attribute.c), the node tree (node.c), the tree builder  *)
(* parseXMLFile, loadXMLFile with its test of the first line, the two path *)
(* resolvers getXMLValue and getXMLNode and the typed accessors built on   *)
(* getXMLValue (xml.c), and direct calls of addXMLNodeToParent and         *)
(* deleteXMLNodeFromParent on any nodes.                                   *)
(*                                                                         *)
(* Characters are one-character strings, C strings are sequences of them,  *)
(* the stream is a sequence of characters with a read position.  Nodes and *)
(* attributes live in two arenas (sequences of records) addressed by       *)
(* index; index 0 is the NULL pointer and a freed cell keeps its index     *)
(* with live = FALSE.  malloc is assumed to succeed.                       *)
(***************************************************************************)
EXTENDS Integers, Sequences, FiniteSets, TLC

VARIABLES
    file,      \* the characters of the stream
    pos,       \* how many of them fgetc has consumed
    nodes,     \* arena of XML_Node
    attrs,     \* arena of XML_Attribute
    tag,       \* the XML_Tag parseXMLFile holds (NoTag: none)
    root,      \* parseXMLFile's local root
    current,   \* parseXMLFile's local current (the cursor)
    pc,        \* "load" in loadXMLFile, then the position inside
               \* parseXMLFile, then "done"; "nodes" while the node
               \* functions are called directly
    result,    \* what parseXMLFile returned (xml->root), NULL before
    stack,     \* the destroyXMLNode calls in progress, innermost last
    log,       \* the logError calls of the parse, oldest first
    q          \* the last query made on the loaded document; while the
               \* file is loaded, what checkFirstLineXMLFile returned;
               \* the last call when the node functions are called directly

vars == <<file, pos, nodes, attrs, tag, root, current, pc, result, stack, log, q>>

-----------------------------------------------------------------------------
(* Constants of the program and bounds of the model *)

XML_BUFFER_LENGTH == 200

\* Most chunks an enumerated input is made of.
MaxChunks == 4

NULL == 0
\* A char* that is NULL (no real string holds a four-character element).
NullStr == <<"NULL">>
\* What fgetc returns at end of input.
EOF == "EOF"
\* The terminating NUL of a C string.
NUL == "NUL"
\* A byte read outside the path string.
OOB == "OOB"

-----------------------------------------------------------------------------
(* Characters *)

\* The 95 printable ASCII characters, ' ' (32) to '~' (126), in order (the
\* grave accent, 96, is written GRAVE).
Printables ==
    << " ", "!", "\"", "#", "$", "%", "&", "'", "(", ")", "*", "+", ",", "-",
       ".", "/", "0", "1", "2", "3", "4", "5", "6", "7", "8", "9", ":", ";",
       "<", "=", ">", "?", "@", "A", "B", "C", "D", "E", "F", "G", "H", "I",
       "J", "K", "L", "M", "N", "O", "P", "Q", "R", "S", "T", "U", "V", "W",
       "X", "Y", "Z", "[", "\\", "]", "^", "_", "GRAVE", "a", "b", "c", "d", "e",
       "f", "g", "h", "i", "j", "k", "l", "m", "n", "o", "p", "q", "r", "s",
       "t", "u", "v", "w", "x", "y", "z", "{", "|", "}", "~" >>

\* The value of (char)c.
Ord(c) ==
    IF \E i \in 1..Len(Printables) : Printables[i] = c
    THEN 31 + (CHOOSE i \in 1..Len(Printables) : Printables[i] = c)
    ELSE CASE c = "\t" -> 9
           [] c = "\n" -> 10
           [] c = "\r" -> 13
           [] OTHER    -> 255

\* (char)charBuffer as stored in a buffer: EOF becomes the byte 0xFF.
ToChar(c) == IF c = EOF THEN "0xFF" ELSE c

-----------------------------------------------------------------------------
(* The stream *)

fgetc(f, p) == IF p < Len(f) THEN f[p + 1] ELSE EOF

\* The read position after one fgetc.
Advance(f, p) == IF p < Len(f) THEN p + 1 ELSE p

\* The position of the first c after p, 0 when the stream holds none.
FirstAt(f, p, c) ==
    LET S == {i \in (p + 1)..Len(f) : f[i] = c}
    IN  IF S = {} THEN 0 ELSE CHOOSE i \in S : \A j \in S : i <= j

\* f[from..to] as a string.
Slice(f, from, to) == [i \in 1..(to - from + 1) |-> f[from + i - 1]]

-----------------------------------------------------------------------------
(* Attributes (attribute.c) *)

InitAttr == [name |-> NullStr, value |-> NullStr, next |-> NULL, live |-> TRUE]

\* createXMLAttribute: the arena with one more, initialized, attribute.
createXMLAttribute(as) == Append(as, InitAttr)

\* freeXMLAttribute: only an initialized attribute is freed.
freeXMLAttribute(as, a) ==
    IF a = NULL THEN as
    ELSE IF as[a].name # NullStr \/ as[a].value # NullStr \/ as[a].next # NULL
    THEN as
    ELSE [as EXCEPT ![a].live = FALSE]

\* destroyXMLAttribute: frees the attribute and the chain behind it.
RECURSIVE destroyXMLAttribute(_, _)
destroyXMLAttribute(as, a) ==
    IF a = NULL THEN as
    ELSE LET rest == IF as[a].next # NULL
                     THEN destroyXMLAttribute(as, as[a].next)
                     ELSE as
         IN  [rest EXCEPT ![a].live = FALSE]

(***************************************************************************)
(* readXMLAttribute.  Both loops stop only at their delimiter: at end of   *)
(* input fgetc keeps returning EOF and the loop keeps writing, and a name  *)
(* or value of XML_BUFFER_LENGTH characters or more is written past        *)
(* strBuffer.  Both are undefined behaviour, reported as st = "ub".        *)
(* st = "null": the function returned NULL; st = "ok": attr is the new     *)
(* attribute.                                                              *)
(***************************************************************************)
\* readXMLAttribute after the opening '"' (read position p2), the value loop
\* having stopped at the '"' at index qt (0: there is none).
AttributeValueRead(f, as1, name, p2, qt) ==
    LET a   == Len(as1)
        val == Slice(f, p2 + 1, qt - 1)
    IN  IF qt = 0 \/ Len(val) >= XML_BUFFER_LENGTH
        THEN [st |-> "ub", attr |-> NULL, pos |-> Len(f),
              attrs |-> [as1 EXCEPT ![a].name = name], log |-> <<>>]
        ELSE [st |-> "ok", attr |-> a, pos |-> qt,
              attrs |-> [as1 EXCEPT ![a].name = name, ![a].value = val],
              log |-> <<>>]

\* readXMLAttribute after createXMLAttribute, the name loop having stopped at
\* the '=' at index eq (0: there is none).
AttributeNameRead(f, p, as1, eq) ==
    LET name == Slice(f, p + 1, eq - 1)
    IN  IF eq = 0 \/ Len(name) >= XML_BUFFER_LENGTH
        THEN [st |-> "ub", attr |-> NULL, pos |-> Len(f), attrs |-> as1, log |-> <<>>]
        ELSE IF fgetc(f, eq) # "\""
        THEN [st |-> "null", attr |-> NULL, pos |-> Advance(f, eq),
              attrs |-> freeXMLAttribute(as1, Len(as1)),
              log |-> <<"attribute: badly parsed">>]
        ELSE AttributeValueRead(f, as1, name, Advance(f, eq),
                                FirstAt(f, Advance(f, eq), "\""))

readXMLAttribute(f, p, as) ==
    AttributeNameRead(f, p, createXMLAttribute(as), FirstAt(f, p, "="))

-----------------------------------------------------------------------------
(* Tags (tag.c) *)

\* No tag: the XML_Tag* is NULL.
NoTag == [name |-> NullStr, attr |-> NULL, type |-> "NULL"]

\* createXMLTag: allocXMLTag then initXMLTag.
createXMLTag == [name |-> NullStr, attr |-> NULL, type |-> "UNKNOWN"]

\* The last attribute of the list whose head is a (not NULL).
RECURSIVE LastOfList(_, _)
LastOfList(as, a) ==
    IF as[a].next = NULL THEN a ELSE LastOfList(as, as[a].next)

\* addAttributeToXMLTag linking the new attribute behind the tag's list.
addAttributeToXMLTagAtTail(as, a, t) ==
    IF a = NULL
    THEN [attrs |-> as, tag |-> t, log |-> <<"tag: add NULL attribute">>]
    ELSE IF t.attr = NULL
    THEN [attrs |-> as, tag |-> [t EXCEPT !.attr = a], log |-> <<>>]
    ELSE [attrs |-> [as EXCEPT ![LastOfList(as, t.attr)].next = a],
          tag |-> t, log |-> <<>>]

\* addAttributeToXMLTag: the new attribute becomes the head of the tag's list.
\* Returns the arena and the tag's new head; a NULL attribute is only logged.
addAttributeToXMLTag(as, a, t) ==
    IF a = NULL
    THEN [attrs |-> as, tag |-> t, log |-> <<"tag: add NULL attribute">>]
    ELSE IF t.attr = NULL
    THEN [attrs |-> as, tag |-> [t EXCEPT !.attr = a], log |-> <<>>]
    ELSE [attrs |-> [as EXCEPT ![a].next = t.attr],
          tag |-> [t EXCEPT !.attr = a], log |-> <<>>]

\* deleteAttributeFromXMLTag: unlinks and returns the head of the tag's list.
deleteAttributeFromXMLTag(as, t) ==
    IF t.attr = NULL
    THEN [attrs |-> as, tag |-> t, deleted |-> NULL]
    ELSE LET deleted == t.attr
         IN  [attrs |-> [as EXCEPT ![deleted].next = NULL],
              tag |-> [t EXCEPT !.attr = as[deleted].next],
              deleted |-> deleted]

\* destroyXMLTag on a tag that is not NULL: resetXMLTag frees the name and the
\* attributes still in the tag, freeXMLTag the tag. Returns the arena.
destroyXMLTag(as, t) ==
    IF t.attr # NULL THEN destroyXMLAttribute(as, t.attr) ELSE as

\* The characters that end a tag's name.
IsNameEnd(c) == c = " " \/ c = ">" \/ c = "/" \/ c = EOF

(***************************************************************************)
(* The name loop of readXMLTag.  c is charBuffer, p the read position      *)
(* after it, buf the part of strBuffer written so far (i = Len(buf)).      *)
(* The loop takes c and the characters after it up to the first ' ', '>',  *)
(* '/' or the end of the stream, one per turn, and gives up in the turn    *)
(* that brings i to cap.  top is the highest index of strBuffer that was   *)
(* written, the index of the terminating NUL when the loop ran to the end  *)
(* of the name.                                                            *)
(***************************************************************************)
NameLoopUpTo(f, p, c, buf, cap) ==
    LET ends == {i \in (p + 1)..Len(f) : IsNameEnd(f[i])}
        e    == IF ends = {} THEN Len(f) + 1
                ELSE CHOOSE i \in ends : \A j \in ends : i <= j
        run  == <<c>> \o Slice(f, p + 1, e - 1)
        room == cap - Len(buf)
    IN  IF IsNameEnd(c)
        THEN [full |-> FALSE, name |-> buf, c |-> c, pos |-> p, top |-> Len(buf)]
        ELSE IF Len(run) >= room
        THEN [full |-> TRUE, name |-> buf \o SubSeq(run, 1, room),
              c |-> fgetc(f, p + room - 1), pos |-> Advance(f, p + room - 1),
              top |-> cap - 1]
        ELSE [full |-> FALSE, name |-> buf \o run, c |-> fgetc(f, e - 1),
              pos |-> Advance(f, e - 1), top |-> Len(buf) + Len(run)]

\* The name loop giving up one turn later, when i has passed the capacity.
ReadTagNameCheckedLate(f, p, c, buf) ==
    NameLoopUpTo(f, p, c, buf, XML_BUFFER_LENGTH + 1)

ReadTagName(f, p, c, buf) == NameLoopUpTo(f, p, c, buf, XML_BUFFER_LENGTH)

(***************************************************************************)
(* The attribute loop of readXMLTag: while charBuffer is ' ', read one     *)
(* attribute, add it to the tag (a NULL one is logged and dropped), read   *)
(* the next character.                                                     *)
(***************************************************************************)
RECURSIVE ReadTagAttributes(_, _, _, _, _, _)
\* One turn of the attribute loop, r being what readXMLAttribute returned.
TagAttributeRead(f, t, lg, r) ==
    LET add == addAttributeToXMLTag(r.attrs, r.attr, t)
    IN  IF r.st = "ub"
        THEN [st |-> "ub", c |-> " ", pos |-> r.pos, attrs |-> r.attrs,
              tag |-> t, log |-> lg \o r.log]
        ELSE ReadTagAttributes(f, Advance(f, r.pos), fgetc(f, r.pos),
                               add.attrs, add.tag, lg \o r.log \o add.log)

ReadTagAttributes(f, p, c, as, t, lg) ==
    IF c # " "
    THEN [st |-> "ok", c |-> c, pos |-> p, attrs |-> as, tag |-> t, log |-> lg]
    ELSE TagAttributeRead(f, t, lg, readXMLAttribute(f, p, as))

\* What readXMLTag returns when it fails: NULL, the tag destroyed.
TagFailure(p, as, t, lg) ==
    [st |-> "null", tag |-> NoTag, pos |-> p, attrs |-> destroyXMLTag(as, t),
     log |-> lg]

(***************************************************************************)
(* readXMLTag.  st = "ok": tag is the tag read; st = "null": NULL was      *)
(* returned; st = "ub": readXMLAttribute ran into undefined behaviour.     *)
(* The function is cut where a loop ends: TagNameRead is the part after    *)
(* the name loop, TagAttributesRead the part after the attribute loop.     *)
(***************************************************************************)
\* The final check of readXMLTag, at being what the attribute loop left.
TagAttributesRead(f, at) ==
    LET t3 == IF at.c = ">" THEN [at.tag EXCEPT !.type = "OPENING"]
              ELSE IF at.c = "/" THEN [at.tag EXCEPT !.type = "UNIQUE"]
              ELSE at.tag
        c3 == IF at.c = "/" THEN fgetc(f, at.pos) ELSE at.c
        p3 == IF at.c = "/" THEN Advance(f, at.pos) ELSE at.pos
    IN  IF at.st = "ub"
        THEN [st |-> "ub", tag |-> NoTag, pos |-> at.pos, attrs |-> at.attrs,
              log |-> at.log]
        ELSE IF c3 # ">"
        THEN TagFailure(p3, at.attrs, t3, at.log \o <<"tag: no closing '>'">>)
        ELSE [st |-> "ok", tag |-> t3, pos |-> p3, attrs |-> at.attrs,
              log |-> at.log]

\* readXMLTag after the name loop: t0 is the tag before it, nm what it left.
TagNameRead(f, as, t0, nm) ==
    LET t1 == [t0 EXCEPT !.name = nm.name]
        \* check character after name
        t2 == IF nm.c = ">" /\ t0.type = "UNKNOWN"
              THEN [t1 EXCEPT !.type = "OPENING"]
              ELSE IF nm.c = "/" /\ t0.type = "UNKNOWN"
              THEN [t1 EXCEPT !.type = "UNIQUE"]
              ELSE t1
        c2 == IF nm.c = "/" /\ t0.type = "UNKNOWN" THEN fgetc(f, nm.pos) ELSE nm.c
        p2 == IF nm.c = "/" /\ t0.type = "UNKNOWN" THEN Advance(f, nm.pos) ELSE nm.pos
    IN  IF nm.full
        THEN [st |-> "null", tag |-> NoTag, pos |-> nm.pos, attrs |-> as,
              log |-> <<"tag: buffer full">>]
        ELSE IF nm.c = "/" /\ t0.type = "UNKNOWN" /\ c2 # ">"
        THEN TagFailure(p2, as, t2, <<"tag: '/' not followed by '>'">>)
        ELSE IF nm.c = "/" /\ t0.type # "UNKNOWN"
        THEN TagFailure(nm.pos, as, t1, <<"tag: closing unique tag">>)
        ELSE IF nm.c = EOF
        THEN TagFailure(nm.pos, as, t1, <<"tag: reached EOF">>)
        ELSE IF t2.type # "UNKNOWN"
        THEN \* no attribute is read: check tag closing character '>'
             IF c2 # ">"
             THEN TagFailure(p2, as, t2, <<"tag: no closing '>'">>)
             ELSE [st |-> "ok", tag |-> t2, pos |-> p2, attrs |-> as, log |-> <<>>]
        ELSE \* try reading attributes
             TagAttributesRead(f, ReadTagAttributes(f, p2, c2, as, t2, <<>>))

\* The name loop entered with c1, read at position p1, the first character
\* after the optional '<': it goes to strBuffer[0] unless it is '/'.
NameLoop(f, c1, p1) ==
    ReadTagName(f, Advance(f, p1), fgetc(f, p1),
                IF c1 = "/" THEN <<>> ELSE <<ToChar(c1)>>)

\* readXMLTag from the first character of the name, c1, read at position p1.
TagNameStart(f, as, c1, p1) ==
    TagNameRead(f, as,
                IF c1 = "/" THEN [createXMLTag EXCEPT !.type = "CLOSING"]
                ELSE createXMLTag,
                NameLoop(f, c1, p1))

\* pre name parsing: c0 is the first character read, '<' is skipped.
TagPreName(f, as, c0, p0) ==
    TagNameStart(f, as, IF c0 = "<" THEN fgetc(f, p0) ELSE c0,
                 IF c0 = "<" THEN Advance(f, p0) ELSE p0)

readXMLTag(f, p, as) == TagPreName(f, as, fgetc(f, p), Advance(f, p))

-----------------------------------------------------------------------------
(* Nodes (node.c) *)

InitNode ==
    [name |-> NullStr, value |-> NullStr, attr |-> NULL, parent |-> NULL,
     previous |-> NULL, next |-> NULL, first |-> NULL, current |-> NULL,
     last |-> NULL, cc |-> 0, live |-> TRUE]

\* createXMLNode: the arena with one more, initialized, node (the new node is
\* the last cell).
createXMLNode(ns) == Append(ns, InitNode)

\* setXMLNodeValue: the value is replaced whether or not one was set.
setXMLNodeValue(ns, value, n) == [ns EXCEPT ![n].value = value]

\* addAttributeToXMLNode linking the attribute behind the node's list.
addAttributeToXMLNodeAtTail(ns, as, a, n) ==
    IF ns[n].attr = NULL
    THEN [nodes |-> [ns EXCEPT ![n].attr = a], attrs |-> as]
    ELSE [nodes |-> ns,
          attrs |-> [as EXCEPT ![LastOfList(as, ns[n].attr)].next = a]]

\* addAttributeToXMLNode: the attribute becomes the head of the node's list.
addAttributeToXMLNode(ns, as, a, n) ==
    IF ns[n].attr = NULL
    THEN [nodes |-> [ns EXCEPT ![n].attr = a], attrs |-> as]
    ELSE [nodes |-> [ns EXCEPT ![n].attr = a],
          attrs |-> [as EXCEPT ![a].next = ns[n].attr]]

\* addXMLNodeToParent forgetting parent->cc++ when the parent has children.
addXMLNodeToParentUncounted(ns, parent, child) ==
    IF parent = NULL \/ child = NULL THEN ns
    ELSE IF ns[child].parent # NULL THEN ns
    ELSE IF ns[child].previous # NULL \/ ns[child].next # NULL THEN ns
    ELSE IF ns[parent].last = NULL
    THEN [ns EXCEPT ![child].parent = parent,
                    ![parent].cc = @ + 1,
                    ![parent].first = child,
                    ![parent].current = child,
                    ![parent].last = child]
    ELSE LET last == ns[parent].last
         IN  [[ns EXCEPT ![child].parent = parent,
                         ![last].next = child]
                  EXCEPT ![child].previous = last,
                         ![parent].last = child]

\* addXMLNodeToParent linking the child before parent->first.
addXMLNodeToParentAtHead(ns, parent, child) ==
    IF parent = NULL \/ child = NULL THEN ns
    ELSE IF ns[child].parent # NULL THEN ns
    ELSE IF ns[child].previous # NULL \/ ns[child].next # NULL THEN ns
    ELSE IF ns[parent].last = NULL
    THEN [ns EXCEPT ![child].parent = parent,
                    ![parent].cc = @ + 1,
                    ![parent].first = child,
                    ![parent].current = child,
                    ![parent].last = child]
    ELSE LET first == ns[parent].first
         IN  [[ns EXCEPT ![child].parent = parent,
                         ![parent].cc = @ + 1,
                         ![first].previous = child]
                  EXCEPT ![child].next = first,
                         ![parent].first = child]

\* addXMLNodeToParent without its tests of child->parent, child->previous
\* and child->next.
addXMLNodeToParentUnguarded(ns, parent, child) ==
    IF parent = NULL \/ child = NULL THEN ns
    ELSE IF ns[parent].last = NULL
    THEN [ns EXCEPT ![child].parent = parent,
                    ![parent].cc = @ + 1,
                    ![parent].first = child,
                    ![parent].current = child,
                    ![parent].last = child]
    ELSE LET last == ns[parent].last
         IN  [[ns EXCEPT ![child].parent = parent,
                         ![parent].cc = @ + 1,
                         ![last].next = child]
                  EXCEPT ![child].previous = last,
                         ![parent].last = child]

\* addXMLNodeToParent: child is appended after parent->last.
addXMLNodeToParent(ns, parent, child) ==
    IF parent = NULL \/ child = NULL THEN ns
    ELSE IF ns[child].parent # NULL THEN ns
    ELSE IF ns[child].previous # NULL \/ ns[child].next # NULL THEN ns
    ELSE IF ns[parent].last = NULL
    THEN [ns EXCEPT ![child].parent = parent,
                    ![parent].cc = @ + 1,
                    ![parent].first = child,
                    ![parent].current = child,
                    ![parent].last = child]
    ELSE LET last == ns[parent].last
         IN  [[ns EXCEPT ![child].parent = parent,
                         ![parent].cc = @ + 1,
                         ![last].next = child]
                  EXCEPT ![child].previous = last,
                         ![parent].last = child]

\* deleteXMLNodeFromParent leaving parent->current as it is.
deleteXMLNodeFromParentKeepingCurrent(ns, child) ==
    IF child = NULL THEN ns
    ELSE IF ns[child].parent = NULL THEN ns
    ELSE LET par  == ns[child].parent
             prev == ns[child].previous
             nxt  == ns[child].next
             n1   == [ns EXCEPT ![par].cc = @ - 1]
             n2   == IF n1[par].first = child
                     THEN [n1 EXCEPT ![par].first = nxt] ELSE n1
             n3   == IF n2[par].last = child
                     THEN [n2 EXCEPT ![par].last = prev] ELSE n2
             n5   == [n3 EXCEPT ![child].parent = NULL]
             n6   == IF prev # NULL THEN [n5 EXCEPT ![prev].next = nxt] ELSE n5
             n7   == IF nxt # NULL THEN [n6 EXCEPT ![nxt].previous = prev] ELSE n6
         IN  [n7 EXCEPT ![child].previous = NULL, ![child].next = NULL]

\* deleteXMLNodeFromParent: child is unlinked from its parent and siblings.
deleteXMLNodeFromParent(ns, child) ==
    IF child = NULL THEN ns
    ELSE IF ns[child].parent = NULL THEN ns
    ELSE LET par  == ns[child].parent
             prev == ns[child].previous
             nxt  == ns[child].next
             n1   == [ns EXCEPT ![par].cc = @ - 1]
             n2   == IF n1[par].first = child
                     THEN [n1 EXCEPT ![par].first = nxt] ELSE n1
             n3   == IF n2[par].last = child
                     THEN [n2 EXCEPT ![par].last = prev] ELSE n2
             n4   == IF n3[par].current = child
                     THEN [n3 EXCEPT ![par].current =
                                        IF nxt = NULL THEN prev ELSE nxt]
                     ELSE n3
             n5   == [n4 EXCEPT ![child].parent = NULL]
             n6   == IF prev # NULL THEN [n5 EXCEPT ![prev].next = nxt] ELSE n5
             n7   == IF nxt # NULL THEN [n6 EXCEPT ![nxt].previous = prev] ELSE n6
         IN  [n7 EXCEPT ![child].previous = NULL, ![child].next = NULL]

\* The loop of initXMLNodeFromXMLTag: the tag's attributes are moved to the
\* node one at a time, the head of the tag's list first.
RECURSIVE MoveAttributes(_, _, _, _)
MoveAttributes(ns, as, n, t) ==
    IF t.attr = NULL
    THEN [nodes |-> ns, attrs |-> as, tag |-> t]
    ELSE LET del == deleteAttributeFromXMLTag(as, t)
             add == addAttributeToXMLNode(ns, del.attrs, del.deleted, n)
         IN  MoveAttributes(add.nodes, add.attrs, n, del.tag)

\* initXMLNodeFromXMLTag giving the node the tag's list without taking it
\* from the tag.
initXMLNodeFromXMLTagSharing(ns, as, n, t) ==
    [nodes |-> [ns EXCEPT ![n] = [InitNode EXCEPT !.name = t.name, !.attr = t.attr]],
     attrs |-> as, tag |-> t]

\* initXMLNodeFromXMLTag: initXMLNode, the tag's name, then its attributes.
initXMLNodeFromXMLTag(ns, as, n, t) ==
    MoveAttributes([ns EXCEPT ![n] = [InitNode EXCEPT !.name = t.name]], as, n, t)

(***************************************************************************)
(* readXMLNodeValue.  First loop: skip to the first character in '!'..'~'; *)
(* '<' or end of input returns without a value.  Second loop: append every *)
(* character in ' '..'~' until '<', line feed or carriage return; end of   *)
(* input returns without setting the value.  A value that fills strBuffer  *)
(* is written past it: st = "ub".                                          *)
(***************************************************************************)
RECURSIVE SkipToValue(_, _)
SkipToValue(f, p) ==
    LET c == fgetc(f, p)
    IN  IF c = EOF THEN [st |-> "eof", pos |-> p]
        ELSE IF c = "<" THEN [st |-> "tag", pos |-> p + 1]
        ELSE IF Ord(c) >= Ord("!") /\ Ord(c) <= Ord("~")
        THEN [st |-> "value", pos |-> p + 1]
        ELSE SkipToValue(f, p + 1)

\* The characters the second loop of readXMLNodeValue puts in strBuffer.
IsValueChar(c) == Ord(c) >= Ord(" ") /\ Ord(c) <= Ord("~")

\* The second loop of readXMLNodeValue from read position p, buf being what
\* strBuffer holds: it runs to the first '<', '\n' or '\r', or to the end of
\* the stream, and keeps the characters from ' ' to '~'.
ReadValue(f, p, buf) ==
    LET stops == {i \in (p + 1)..Len(f) : f[i] \in {"<", "\n", "\r"}}
        e     == IF stops = {} THEN Len(f) + 1
                 ELSE CHOOSE i \in stops : \A j \in stops : i <= j
    IN  [st  |-> IF stops = {} THEN "eof" ELSE "end",
         pos |-> IF stops = {} THEN Len(f) ELSE e,
         buf |-> buf \o SelectSeq(Slice(f, p + 1, e - 1), IsValueChar)]

readXMLNodeValue(ns, n, f, p) ==
    LET s == SkipToValue(f, p)
        v == ReadValue(f, s.pos, <<f[s.pos]>>)
    IN  IF s.st = "eof"
        THEN [st |-> "ok", nodes |-> ns, pos |-> s.pos, log |-> <<"value: reached EOF">>]
        ELSE IF s.st = "tag"
        THEN [st |-> "ok", nodes |-> ns, pos |-> s.pos, log |-> <<>>]
        ELSE IF Len(v.buf) > XML_BUFFER_LENGTH
                \/ (v.st = "end" /\ Len(v.buf) = XML_BUFFER_LENGTH)
        THEN [st |-> "ub", nodes |-> ns, pos |-> v.pos, log |-> <<>>]
        ELSE IF v.st = "eof"
        THEN [st |-> "ok", nodes |-> ns, pos |-> v.pos, log |-> <<"value: reached EOF">>]
        ELSE [st |-> "ok", nodes |-> setXMLNodeValue(ns, v.buf, n), pos |-> v.pos,
              log |-> <<>>]

-----------------------------------------------------------------------------
(* Inputs *)

\* The chunks the enumerated inputs are made of.
Chunks ==
    { <<"<", "a", ">">>,
      <<"<", "/", "a", ">">>,
      <<"<", "b", "/", ">">>,
      <<"<", "b", " ", "x", "=", "\"", "1", "\"", " ", "y", "=", "\"", "2", "\"", ">">>,
      <<"<", "c", " ", "x", "=", "\"", "1", "\"", " ", "x", "=", "\"", "2", "\"", "/", ">">>,
      <<"<", "a", " ", "k", "=", "v", ">">>,
      <<"<", "/", "b", ">">>,
      <<"h", "i">>,
      <<"\n">>,
      <<" ">> }

RECURSIVE Flatten(_)
Flatten(cs) == IF cs = <<>> THEN <<>> ELSE Head(cs) \o Flatten(Tail(cs))

\* <a><b>text</b></a>
DocNesting ==
    <<"<","a",">", "<","b",">", "t","e","x","t", "<","/","b",">", "<","/","a",">">>
\* <a x="1" y="2"/>
DocTwoAttributes ==
    <<"<","a"," ","x","=","\"","1","\""," ","y","=","\"","2","\"","/",">">>
\* <a><b></a>
DocUnbalanced == <<"<","a",">", "<","b",">", "<","/","a",">">>
\* <a k=v>
DocNoQuote == <<"<","a"," ","k","=","v",">">>
\* <root><foo><bar baz="1">hi</bar></foo></root>
DocValueQuery ==
    <<"<","r","o","o","t",">", "<","f","o","o",">",
      "<","b","a","r"," ","b","a","z","=","\"","1","\"",">", "h","i",
      "<","/","b","a","r",">", "<","/","f","o","o",">",
      "<","/","r","o","o","t",">">>
\* <r><item id="1"/><item id="2"/></r>
DocItems ==
    <<"<","r",">",
      "<","i","t","e","m"," ","i","d","=","\"","1","\"","/",">",
      "<","i","t","e","m"," ","i","d","=","\"","2","\"","/",">",
      "<","/","r",">">>

\* <a k="v"/>
DocUniqueRoot == <<"<", "a", " ", "k", "=", "\"", "v", "\"", "/", ">">>
\* <a k="v"/><b>
DocUniqueRootThenTag == DocUniqueRoot \o <<"<", "b", ">">>

\* <o t="true" f="false" u="TRUE" s="true " e="">false</o>
DocFlags ==
    <<"<","o"," ","t","=","\"","t","r","u","e","\"",
      " ","f","=","\"","f","a","l","s","e","\"",
      " ","u","=","\"","T","R","U","E","\"",
      " ","s","=","\"","t","r","u","e"," ","\"",
      " ","e","=","\"","\"",">",
      "f","a","l","s","e", "<","/","o",">">>

\* <a>x<b/>y</a>: a text before and another text after the child.
DocTextAfterChild ==
    <<"<","a",">", "x", "<","b","/",">", "y", "<","/","a",">">>

\* <a><b></a></b> and <a><b></b></a>: the closing tags crossed and in order.
DocCrossedClosings ==
    <<"<","a",">", "<","b",">", "<","/","a",">", "<","/","b",">">>
DocNestedEmpty ==
    <<"<","a",">", "<","b",">", "<","/","b",">", "<","/","a",">">>
\* <a></b> and <a></a>.
DocClosedByOther == <<"<","a",">", "<","/","b",">">>
DocClosedByItself == <<"<","a",">", "<","/","a",">">>

\* <r><b/><b x="1" y="2"><c x="1" x="2"/></b></r>: the second b has a child
\* c, the first has none.
DocLaterSibling ==
    <<"<","r",">", "<","b","/",">",
      "<","b"," ","x","=","\"","1","\""," ","y","=","\"","2","\"",">",
      "<","c"," ","x","=","\"","1","\""," ","x","=","\"","2","\"","/",">",
      "<","/","b",">", "<","/","r",">">>

\* <a>hi\n  <b/></a>: the text ends with a line feed, and two spaces
\* precede the next tag.
DocTextThenSpaces ==
    <<"<","a",">", "h","i", "\n", " "," ", "<","b","/",">", "<","/","a",">">>

Examples ==
    {DocNesting, DocTwoAttributes, DocUnbalanced, DocNoQuote, DocValueQuery,
     DocItems, DocUniqueRoot, DocUniqueRootThenTag, DocFlags, DocTextAfterChild,
     DocTextThenSpaces, DocCrossedClosings, DocNestedEmpty, DocClosedByOther,
     DocClosedByItself, DocLaterSibling}

ChunkLists == UNION {[1..n -> Chunks] : n \in 0..MaxChunks}

\* A name of k characters.
LongName(k) == [i \in 1..k |-> "n"]

\* The name lengths around the capacity of strBuffer.
NameLengths == (XML_BUFFER_LENGTH - 2)..(XML_BUFFER_LENGTH + 2)

\* Streams whose first or second tag carries a name about as long as
\* strBuffer: opening, closing or unique, with an attribute, or cut short.
LongNameDocs ==
    { pre \o <<"<">> \o sl \o LongName(k) \o end :
        pre \in {<<>>, <<"<", "a", ">">>},
        sl \in {<<>>, <<"/">>},
        k \in NameLengths,
        end \in { <<">">>, <<"/", ">">>,
                  <<" ", "x", "=", "\"", "1", "\"", ">">>, <<>> } }

\* <a nnn="1">, <a x="nnn"> and <a>nnn</a>, nnn being k characters long.
AttributeNameDoc(k) ==
    <<"<", "a", " ">> \o LongName(k) \o <<"=", "\"", "1", "\"", ">">>
AttributeValueDoc(k) ==
    <<"<", "a", " ", "x", "=", "\"">> \o LongName(k) \o <<"\"", ">">>
TextDoc(k) ==
    <<"<", "a", ">">> \o LongName(k) \o <<"<", "/", "a", ">">>

\* Streams with an attribute name, an attribute value or a text about as
\* long as the strBuffer of readXMLAttribute and readXMLNodeValue.
LongTextDocs ==
    UNION {{AttributeNameDoc(k), AttributeValueDoc(k), TextDoc(k)} :
             k \in NameLengths}

\* Streams that end inside an attribute: <a k and <a k="v end in the name
\* and in the value, <a k= ends where the opening '"' is expected.
DocCutInName == <<"<", "a", " ", "k">>
DocCutInValue == <<"<", "a", " ", "k", "=", "\"", "v">>
DocCutAtQuote == <<"<", "a", " ", "k", "=">>

CutAttributeDocs ==
    { pre \o d : pre \in {<<>>, <<"<", "r", ">">>},
                 d \in {DocCutInName, DocCutInValue, DocCutAtQuote} }

\* <a k=/>hi</a>: the attribute has no '"' after '=', and "/>" follows.
DocSlashAfterEquals ==
    <<"<", "a", " ", "k", "=", "/", ">", "h", "i", "<", "/", "a", ">">>

Inputs ==
    Examples \cup LongNameDocs \cup LongTextDocs \cup CutAttributeDocs
        \cup {DocSlashAfterEquals} \cup {Flatten(cs) : cs \in ChunkLists}

-----------------------------------------------------------------------------
(* parseXMLFile (xml.c) *)

NoQuery == [op |-> "none"]

\* What a run that entered undefined behaviour may do.
UBOutcomes == {"crashed", "hung"}

\* The state when parseXMLFile is entered on one of the streams of S.
InitOn(S) ==
    /\ file \in S
    /\ pos = 0
    /\ nodes = <<>>
    /\ attrs = <<>>
    /\ tag = NoTag
    /\ root = NULL
    /\ current = NULL
    /\ pc = "start"
    /\ result = NULL
    /\ stack = <<>>
    /\ log = <<>>
    /\ q = NoQuery

Init == InitOn(Inputs)

\* tag = readXMLTag(file), the first one.
ReadFirstTag ==
    /\ pc = "start"
    /\ LET r == readXMLTag(file, pos, attrs)
       IN  /\ pos' = r.pos
           /\ attrs' = r.attrs
           /\ tag' = r.tag
           /\ log' = log \o r.log
           /\ pc' \in (IF r.st = "ub" THEN UBOutcomes ELSE {"first"})
    /\ UNCHANGED <<file, nodes, root, current, result, stack, q>>

\* The first tag is NULL: "Nothing to parse", destroyXMLTag(NULL), return NULL.
FirstTagMissing ==
    /\ pc = "first"
    /\ tag = NoTag
    /\ log' = log \o <<"parse: nothing to parse", "tag: destroy NULL tag">>
    /\ pc' = "done"
    /\ result' = NULL
    /\ UNCHANGED <<file, pos, nodes, attrs, tag, root, current, stack, q>>

\* The closing first tag taken for the root: a node is made of it.
FirstTagClosingMakesRoot ==
    /\ pc = "first"
    /\ tag.type = "CLOSING"
    /\ LET ns == createXMLNode(nodes)
           r  == initXMLNodeFromXMLTag(ns, attrs, Len(ns), tag)
       IN  /\ nodes' = r.nodes
           /\ attrs' = destroyXMLTag(r.attrs, r.tag)
           /\ root' = Len(ns)
           /\ result' = Len(ns)
    /\ tag' = NoTag
    /\ pc' = "done"
    /\ UNCHANGED <<file, pos, current, stack, log, q>>

\* The first tag is a closing tag: the tag is destroyed, return NULL.
FirstTagClosing ==
    /\ pc = "first"
    /\ tag.type = "CLOSING"
    /\ log' = log \o <<"parse: first tag is a closing tag">>
    /\ attrs' = destroyXMLTag(attrs, tag)
    /\ tag' = NoTag
    /\ pc' = "done"
    /\ result' = NULL
    /\ UNCHANGED <<file, pos, nodes, root, current, stack, q>>

\* The unique first tag taken for an opening one: the loop is entered.
FirstTagUniqueReadsOn ==
    /\ pc = "first"
    /\ tag.type = "UNIQUE"
    /\ LET ns == createXMLNode(nodes)
           r  == initXMLNodeFromXMLTag(ns, attrs, Len(ns), tag)
       IN  /\ nodes' = r.nodes
           /\ attrs' = destroyXMLTag(r.attrs, r.tag)
           /\ root' = Len(ns)
           /\ current' = Len(ns)
    /\ tag' = NoTag
    /\ pc' = "loop"
    /\ UNCHANGED <<file, pos, result, stack, log, q>>

\* The first tag is a unique tag: the root is the whole tree.
FirstTagUnique ==
    /\ pc = "first"
    /\ tag.type = "UNIQUE"
    /\ LET ns == createXMLNode(nodes)
           r  == initXMLNodeFromXMLTag(ns, attrs, Len(ns), tag)
       IN  /\ nodes' = r.nodes
           /\ attrs' = destroyXMLTag(r.attrs, r.tag)
           /\ root' = Len(ns)
           /\ result' = Len(ns)
    /\ tag' = NoTag
    /\ pc' = "done"
    /\ UNCHANGED <<file, pos, current, stack, log, q>>

\* The first tag is an opening tag: it opens the root.
FirstTagOpening ==
    /\ pc = "first"
    /\ tag.type = "OPENING"
    /\ LET ns == createXMLNode(nodes)
           r  == initXMLNodeFromXMLTag(ns, attrs, Len(ns), tag)
       IN  /\ nodes' = r.nodes
           /\ attrs' = destroyXMLTag(r.attrs, r.tag)
           /\ root' = Len(ns)
           /\ current' = Len(ns)
    /\ tag' = NoTag
    /\ pc' = "loop"
    /\ UNCHANGED <<file, pos, result, stack, log, q>>

\* One turn of the loop, first half: readXMLNodeValue(current, file), then
\* tag = readXMLTag(file).
ReadNext ==
    /\ pc = "loop"
    /\ LET v == readXMLNodeValue(nodes, current, file, pos)
           r == readXMLTag(file, v.pos, attrs)
       IN  IF v.st = "ub"
           THEN /\ pc' \in UBOutcomes
                /\ pos' = v.pos
                /\ UNCHANGED <<nodes, attrs, tag, log>>
           ELSE /\ nodes' = v.nodes
                /\ pos' = r.pos
                /\ attrs' = r.attrs
                /\ tag' = r.tag
                /\ log' = log \o v.log \o r.log
                /\ pc' \in (IF r.st = "ub" THEN UBOutcomes ELSE {"tag"})
    /\ UNCHANGED <<file, root, current, result, stack, q>>

\* tag == NULL taken for the end of the document: root is returned.
NoTagRemainingReturnsRoot ==
    /\ pc = "tag"
    /\ tag = NoTag
    /\ result' = root
    /\ pc' = "done"
    /\ UNCHANGED <<file, pos, nodes, attrs, tag, root, current, stack, log, q>>

\* tag == NULL: "No tag remaining, and tree isn't finished", destroyXMLNode(root).
NoTagRemaining ==
    /\ pc = "tag"
    /\ tag = NoTag
    /\ log' = log \o <<"parse: no tag remaining">>
    /\ stack' = <<root>>
    /\ pc' = "destroy"
    /\ UNCHANGED <<file, pos, nodes, attrs, tag, root, current, result, q>>

\* An opening tag whose node is not linked under current before it becomes
\* current.
TagOpeningUnlinked ==
    /\ pc = "tag"
    /\ tag.type = "OPENING"
    /\ LET ns == createXMLNode(nodes)
           r  == initXMLNodeFromXMLTag(ns, attrs, Len(ns), tag)
       IN  /\ nodes' = r.nodes
           /\ attrs' = destroyXMLTag(r.attrs, r.tag)
           /\ current' = Len(ns)
    /\ tag' = NoTag
    /\ pc' = "loop"
    /\ UNCHANGED <<file, pos, root, result, stack, log, q>>

\* An opening tag: a child of current is created and becomes current.
TagOpening ==
    /\ pc = "tag"
    /\ tag.type = "OPENING"
    /\ LET ns == createXMLNode(nodes)
           r  == initXMLNodeFromXMLTag(ns, attrs, Len(ns), tag)
       IN  /\ nodes' = addXMLNodeToParent(r.nodes, current, Len(ns))
           /\ attrs' = destroyXMLTag(r.attrs, r.tag)
           /\ current' = Len(ns)
    /\ tag' = NoTag
    /\ pc' = "loop"
    /\ UNCHANGED <<file, pos, root, result, stack, log, q>>

\* A unique tag handled without destroyXMLTag(tag) at the end of the turn.
TagUniqueKeepingTag ==
    /\ pc = "tag"
    /\ tag.type = "UNIQUE"
    /\ LET ns == createXMLNode(nodes)
           r  == initXMLNodeFromXMLTag(ns, attrs, Len(ns), tag)
       IN  /\ nodes' = addXMLNodeToParent(r.nodes, current, Len(ns))
           /\ attrs' = r.attrs
           /\ tag' = r.tag
    /\ pc' = "loop"
    /\ UNCHANGED <<file, pos, root, current, result, stack, log, q>>

\* A unique tag: a child of current is created, current stays.
TagUnique ==
    /\ pc = "tag"
    /\ tag.type = "UNIQUE"
    /\ LET ns == createXMLNode(nodes)
           r  == initXMLNodeFromXMLTag(ns, attrs, Len(ns), tag)
       IN  /\ nodes' = addXMLNodeToParent(r.nodes, current, Len(ns))
           /\ attrs' = destroyXMLTag(r.attrs, r.tag)
    /\ tag' = NoTag
    /\ pc' = "loop"
    /\ UNCHANGED <<file, pos, root, current, result, stack, log, q>>

\* A closing tag that closes current only when it bears its name: any other
\* name ends the parse with a failure.
TagClosingMatching ==
    /\ pc = "tag"
    /\ tag.type = "CLOSING"
    /\ nodes[current].parent # NULL
    /\ attrs' = destroyXMLTag(attrs, tag)
    /\ tag' = NoTag
    /\ IF tag.name = nodes[current].name
       THEN /\ current' = nodes[current].parent
            /\ pc' = "loop"
            /\ UNCHANGED <<stack, log>>
       ELSE /\ log' = log \o <<"parse: closing tag does not match">>
            /\ stack' = <<root>>
            /\ pc' = "destroy"
            /\ UNCHANGED current
    /\ UNCHANGED <<file, pos, nodes, root, result, q>>

\* A closing tag while current has a parent: current moves to its parent.
TagClosing ==
    /\ pc = "tag"
    /\ tag.type = "CLOSING"
    /\ nodes[current].parent # NULL
    /\ current' = nodes[current].parent
    /\ attrs' = destroyXMLTag(attrs, tag)
    /\ tag' = NoTag
    /\ pc' = "loop"
    /\ UNCHANGED <<file, pos, nodes, root, result, stack, log, q>>

\* A closing tag while current has no parent: the loop ends; root is returned
\* when it is current, destroyed otherwise.
TagClosingRoot ==
    /\ pc = "tag"
    /\ tag.type = "CLOSING"
    /\ nodes[current].parent = NULL
    /\ attrs' = destroyXMLTag(attrs, tag)
    /\ tag' = NoTag
    /\ IF root # current
       THEN /\ log' = log \o <<"parse: last closed node isn't root">>
            /\ stack' = <<root>>
            /\ pc' = "destroy"
            /\ UNCHANGED result
       ELSE /\ result' = root
            /\ pc' = "done"
            /\ UNCHANGED <<log, stack>>
    /\ UNCHANGED <<file, pos, nodes, root, current, q>>

\* destroyXMLNode(n), n the innermost call: while n has children, its last
\* child is destroyed first.
DestroyChild ==
    /\ pc = "destroy"
    /\ stack # <<>>
    /\ LET n == stack[Len(stack)]
       IN  /\ nodes[n].cc > 0
           /\ stack' = Append(stack, nodes[n].last)
    /\ UNCHANGED <<file, pos, nodes, attrs, tag, root, current, pc, result, log, q>>

\* destroyXMLNode(n) freeing n without deleteXMLNodeFromParent(n).
DestroyNodeStillLinked ==
    /\ pc = "destroy"
    /\ stack # <<>>
    /\ LET n == stack[Len(stack)]
       IN  /\ nodes[n].cc <= 0
           /\ nodes' = [nodes EXCEPT ![n].live = FALSE]
           /\ attrs' = IF nodes[n].attr # NULL
                       THEN destroyXMLAttribute(attrs, nodes[n].attr) ELSE attrs
           /\ stack' = SubSeq(stack, 1, Len(stack) - 1)
           /\ IF Len(stack) = 1
              THEN pc' = "done" /\ result' = NULL
              ELSE UNCHANGED <<pc, result>>
    /\ UNCHANGED <<file, pos, tag, root, current, log, q>>

\* destroyXMLNode(n) freeing n without destroyXMLAttribute(n->attr).
DestroyNodeKeepingAttributes ==
    /\ pc = "destroy"
    /\ stack # <<>>
    /\ LET n  == stack[Len(stack)]
           ns == IF nodes[n].parent # NULL
                 THEN deleteXMLNodeFromParent(nodes, n) ELSE nodes
       IN  /\ nodes[n].cc <= 0
           /\ nodes' = [ns EXCEPT ![n].live = FALSE]
           /\ stack' = SubSeq(stack, 1, Len(stack) - 1)
           /\ IF Len(stack) = 1
              THEN pc' = "done" /\ result' = NULL
              ELSE UNCHANGED <<pc, result>>
    /\ UNCHANGED <<file, pos, attrs, tag, root, current, log, q>>

\* destroyXMLNode(n), n without children: n is unlinked from its parent and
\* siblings, its name, value and attributes are freed, then n itself.
DestroyNode ==
    /\ pc = "destroy"
    /\ stack # <<>>
    /\ LET n  == stack[Len(stack)]
           ns == IF nodes[n].parent # NULL
                 THEN deleteXMLNodeFromParent(nodes, n) ELSE nodes
       IN  /\ nodes[n].cc <= 0
           /\ nodes' = [ns EXCEPT ![n].live = FALSE]
           /\ attrs' = IF nodes[n].attr # NULL
                       THEN destroyXMLAttribute(attrs, nodes[n].attr) ELSE attrs
           /\ stack' = SubSeq(stack, 1, Len(stack) - 1)
           /\ IF Len(stack) = 1
              THEN pc' = "done" /\ result' = NULL
              ELSE UNCHANGED <<pc, result>>
    /\ UNCHANGED <<file, pos, tag, root, current, log, q>>

Next ==
    \/ ReadFirstTag
    \/ FirstTagMissing
    \/ FirstTagClosing
    \/ FirstTagUnique
    \/ FirstTagOpening
    \/ ReadNext
    \/ NoTagRemaining
    \/ TagOpening
    \/ TagUnique
    \/ TagClosing
    \/ TagClosingRoot
    \/ DestroyChild
    \/ DestroyNode

Spec == Init /\ [][Next]_vars

\* parseXMLFile as a running program: it has one thread of control, which
\* takes its next step whenever there is one.
\* Most chunks a stream of the termination runs is made of.
MaxRunChunks == 3

\* The chunks without a space: after none of their names is an attribute
\* read.
PlainChunks == {c \in Chunks : \A i \in 1..Len(c) : c[i] # " "}

\* The streams of the termination runs: the examples, the streams about as
\* long as the buffers and the streams made of plain chunks.
TerminationInputs ==
    Examples \cup LongNameDocs \cup LongTextDocs \cup
    {Flatten(cs) : cs \in UNION {[1..n -> PlainChunks] : n \in 0..MaxRunChunks}}

TerminationInit == InitOn(TerminationInputs)

\* The steps that read the stream: enabled exactly when pc is "start" or
\* "loop", whatever the stream holds.
ReadStep == ReadFirstTag \/ ReadNext

\* The steps that handle the tag that was read or tear the tree down.
HandleStep ==
    \/ FirstTagMissing
    \/ FirstTagClosing
    \/ FirstTagUnique
    \/ FirstTagOpening
    \/ NoTagRemaining
    \/ TagOpening
    \/ TagUnique
    \/ TagClosing
    \/ TagClosingRoot
    \/ DestroyChild
    \/ DestroyNode

\* parseXMLFile as a running program: it has one thread of control, which
\* takes its next step whenever there is one.  The second conjunct of the
\* fairness condition is WF_vars(ReadStep) with the enabling condition of
\* ReadStep written out.
TerminationSpec ==
    /\ TerminationInit
    /\ [][Next]_vars
    /\ WF_vars(HandleStep)
    /\ ([]<>(pc \notin {"start", "loop"}) \/ []<><<ReadStep>>_vars)

-----------------------------------------------------------------------------
(* Path resolution (xml.c) *)

\* path[i], i counted from 0 as in C: the string, its NUL, then bytes that
\* are not the string's.
PathAt(path, i) ==
    IF i < Len(path) THEN path[i + 1]
    ELSE IF i = Len(path) THEN NUL
    ELSE OOB

\* The index of the first character of path, from index i on, that is one of
\* stops or lies outside the string.
StopAt(path, i, stops) ==
    LET S == {j \in i..(Len(path) + 1) : PathAt(path, j) \in stops \cup {OOB}}
    IN  IF S = {} THEN i ELSE CHOOSE j \in S : \A k \in S : j <= k

\* path[from..to], indices counted from 0.
PathSlice(path, from, to) == [k \in 1..(to - from + 1) |-> PathAt(path, from + k - 1)]

\* while(c is no stop){buf[iBuf++] = c; c = path[++iPath];}: the characters
\* from path[i] up to the first stop, that stop and its index.
ReadWhile(path, i, stops, buf) ==
    [buf |-> buf \o PathSlice(path, i, StopAt(path, i, stops) - 1),
     c   |-> PathAt(path, StopAt(path, i, stops)),
     i   |-> StopAt(path, i, stops)]

\* do{c = path[iPath]; buf[iBuf++] = c; iPath++;}while(c is no stop): the
\* stop is stored too, and i is the index after it.
ReadDoWhile(path, i, stops, buf) ==
    [buf |-> buf \o PathSlice(path, i, StopAt(path, i, stops)),
     c   |-> PathAt(path, StopAt(path, i, stops)),
     i   |-> StopAt(path, i, stops) + 1]

\* A buffer read as a C string: what precedes its first NUL.
CString(buf) ==
    LET S == {k \in 1..Len(buf) : buf[k] = NUL}
    IN  IF S = {} THEN buf
        ELSE SubSeq(buf, 1, (CHOOSE k \in S : \A m \in S : k <= m) - 1)

\* while((n != NULL) && (strcmp(name, n->name) != 0)) n = n->next;
RECURSIVE FindSibling(_, _, _)
FindSibling(ns, n, name) ==
    IF n = NULL THEN NULL
    ELSE IF ns[n].name = name THEN n
    ELSE FindSibling(ns, ns[n].next, name)

\* while((attr != NULL) && (strcmp(name, attr->name) != 0)) attr = attr->next;
RECURSIVE FindAttribute(_, _, _)
FindAttribute(as, a, name) ==
    IF a = NULL THEN NULL
    ELSE IF as[a].name = name THEN a
    ELSE FindAttribute(as, as[a].next, name)

(***************************************************************************)
(* The loop of getXMLValue, one turn per call: read a segment into         *)
(* strBuffer, find the node of that name among n and its next siblings,    *)
(* then act on the delimiter.  st = "ub": strBuffer was written past its   *)
(* end.  value = NullStr: NULL is returned.                                *)
(***************************************************************************)
RECURSIVE ValueLoop(_, _, _, _, _)
ValueLoop(path, iPath, n, ns, as) ==
    LET seg   == ReadWhile(path, iPath, {"/", ":", "$", NUL}, <<>>)
        found == FindSibling(ns, n, seg.buf)
        rest  == ReadWhile(path, seg.i + 1, {NUL}, <<>>)
        attr  == FindAttribute(as, ns[found].attr, rest.buf)
    IN  IF Len(seg.buf) >= XML_BUFFER_LENGTH
        THEN [st |-> "ub", value |-> NullStr, log |-> <<>>]
        ELSE IF seg.c = NUL
        THEN [st |-> "ok", value |-> NullStr, log |-> <<"value: end of path">>]
        ELSE IF found = NULL
        THEN [st |-> "ok", value |-> NullStr, log |-> <<"value: no child">>]
        ELSE IF seg.c = "/"
        THEN ValueLoop(path, seg.i + 1, ns[found].first, ns, as)
        ELSE IF seg.c = "$"
        THEN IF ns[found].value # NullStr
             THEN [st |-> "ok", value |-> ns[found].value, log |-> <<>>]
             ELSE ValueLoop(path, seg.i + 1, found, ns, as)
        ELSE \* seg.c = ":"
             IF Len(rest.buf) >= XML_BUFFER_LENGTH
             THEN [st |-> "ub", value |-> NullStr, log |-> <<>>]
             ELSE IF attr = NULL
             THEN [st |-> "ok", value |-> NullStr, log |-> <<"value: no attribute">>]
             ELSE IF as[attr].value # NullStr
             THEN [st |-> "ok", value |-> as[attr].value, log |-> <<>>]
             ELSE ValueLoop(path, rest.i, found, ns, as)

\* getXMLValue matching the first segment against the children of the root.
getXMLValueBelowRoot(path, r, ns, as) ==
    ValueLoop(path, 0, IF r = NULL THEN NULL ELSE ns[r].first, ns, as)

\* getXMLValue(path, xml), xml->root being r.
getXMLValue(path, r, ns, as) == ValueLoop(path, 0, r, ns, as)

\* The attribute loop of getXMLNode's matching: nodeFound and attr after it.
RECURSIVE ScanAttributes(_, _, _, _)
ScanAttributes(as, a, name, value) ==
    IF a = NULL THEN [found |-> FALSE, attr |-> NULL]
    ELSE IF as[a].name = name /\ as[a].value = value
    THEN [found |-> TRUE, attr |-> as[a].next]
    ELSE ScanAttributes(as, as[a].next, name, value)

\* The matching loop of getXMLNode with the attribute check left out.
RECURSIVE MatchNodeByName(_, _, _, _, _, _, _)
MatchNodeByName(ns, as, n, name, checkAttr, attrName, attrValue) ==
    IF ns[n].name = name THEN [found |-> TRUE, n |-> n]
    ELSE IF ns[n].next = NULL THEN [found |-> FALSE, n |-> NULL]
    ELSE MatchNodeByName(ns, as, ns[n].next, name, checkAttr, attrName, attrValue)

(***************************************************************************)
(* The matching loop of getXMLNode from node n (not NULL): nodeFound and n *)
(* after it.  checkAttr is iAtBuf != 0.  When the matching attribute is    *)
(* the last of its node, attr is NULL after the scan and n moves to the    *)
(* next sibling although the node was found.                               *)
(***************************************************************************)
RECURSIVE MatchNode(_, _, _, _, _, _, _)
MatchNode(ns, as, n, name, checkAttr, attrName, attrValue) ==
    LET scan == ScanAttributes(as, ns[n].attr, attrName, attrValue)
        nxt  == ns[n].next
    IN  IF ns[n].name # name
        THEN IF nxt = NULL THEN [found |-> FALSE, n |-> NULL]
             ELSE MatchNode(ns, as, nxt, name, checkAttr, attrName, attrValue)
        ELSE IF ~checkAttr
        THEN [found |-> TRUE, n |-> n]
        ELSE IF scan.found
        THEN [found |-> TRUE, n |-> IF scan.attr = NULL THEN nxt ELSE n]
        ELSE IF nxt = NULL THEN [found |-> FALSE, n |-> NULL]
             ELSE MatchNode(ns, as, nxt, name, checkAttr, attrName, attrValue)

(***************************************************************************)
(* getXMLNode(path + off, r).  junk is what the uninitialized locals       *)
(* iAtBuf, attrBuffer and valueBuffer hold when the segment has no '?'.    *)
(* st = "ub": a buffer was written past its end, a byte was read outside   *)
(* the path, or NULL->first was read.                                      *)
(***************************************************************************)
RECURSIVE NodeLoop(_, _, _, _, _, _)
NodeLoop(path, off, r, ns, as, junk) ==
    LET nm      == ReadWhile(path, off, {"/", "?", NUL}, <<>>)
        at      == ReadDoWhile(path, nm.i + 1, {"=", NUL}, <<>>)
        va      == ReadDoWhile(path, at.i + 1, {"/", NUL}, <<>>)
        hasPred == nm.c = "?"
        iAtBuf  == IF hasPred THEN Len(at.buf) ELSE junk.iAtBuf
        attrB   == IF hasPred THEN CString(at.buf) ELSE junk.attrBuffer
        valueB  == IF hasPred THEN CString(va.buf) ELSE junk.valueBuffer
        c       == IF hasPred THEN va.c ELSE nm.c
        iPath   == IF hasPred THEN va.i + 1 ELSE nm.i + 1
        m       == MatchNode(ns, as, r, nm.buf, iAtBuf # 0, attrB, valueB)
    IN  IF r = NULL
        THEN [st |-> "ok", node |-> NULL, log |-> <<>>]
        ELSE IF nm.c = OOB \/ Len(nm.buf) >= XML_BUFFER_LENGTH
        THEN [st |-> "ub", node |-> NULL, log |-> <<>>]
        ELSE IF hasPred /\ (at.c = OOB \/ Len(at.buf) >= XML_BUFFER_LENGTH)
        THEN [st |-> "ub", node |-> NULL, log |-> <<>>]
        ELSE IF hasPred /\ at.c # "="
        THEN [st |-> "ok", node |-> NULL, log |-> <<"node: attribute without value">>]
        ELSE IF hasPred /\ (va.c = OOB \/ Len(va.buf) >= XML_BUFFER_LENGTH)
        THEN [st |-> "ub", node |-> NULL, log |-> <<>>]
        ELSE IF ~m.found
        THEN [st |-> "ok", node |-> NULL, log |-> <<>>]
        ELSE IF c = "/"
        THEN IF m.n = NULL
             THEN [st |-> "ub", node |-> NULL, log |-> <<>>]
             ELSE NodeLoop(path, iPath, ns[m.n].first, ns, as, junk)
        ELSE IF c # NUL
        THEN [st |-> "ok", node |-> NULL, log |-> <<>>]
        ELSE [st |-> "ok", node |-> m.n, log |-> <<>>]

\* getXMLNode(path, root), root being r.
getXMLNode(path, r, ns, as, junk) == NodeLoop(path, 0, r, ns, as, junk)

\* getXMLString: the value, or defaultValue when getXMLValue returns NULL.
getXMLString(path, r, ns, as, defaultValue) ==
    LET v == getXMLValue(path, r, ns, as)
    IN  [st |-> v.st, log |-> v.log,
         value |-> IF v.value = NullStr THEN defaultValue ELSE v.value]

\* isspace and isdigit in the C locale (no character stands for the
\* vertical tab).
IsSpace(c) == c \in {" ", "\t", "\n", "\f", "\r"}
IsDigit(c) == c \in {"0", "1", "2", "3", "4", "5", "6", "7", "8", "9"}

RECURSIVE SkipSpaces(_)
SkipSpaces(s) ==
    IF s # <<>> /\ IsSpace(Head(s)) THEN SkipSpaces(Tail(s)) ELSE s

\* The leading digits of s.
RECURSIVE LeadingDigits(_)
LeadingDigits(s) ==
    IF s # <<>> /\ IsDigit(Head(s)) THEN <<Head(s)>> \o LeadingDigits(Tail(s))
    ELSE <<>>

\* The number a sequence of digits denotes in base 10.
RECURSIVE Decimal(_, _)
Decimal(ds, acc) ==
    IF ds = <<>> THEN acc
    ELSE Decimal(Tail(ds), 10 * acc + (Ord(Head(ds)) - Ord("0")))

\* What follows the optional sign of s.
Unsigned(s) == IF s # <<>> /\ Head(s) \in {"+", "-"} THEN Tail(s) ELSE s

\* atoi: white space is skipped, then an optional sign and the leading
\* digits are converted; anything else yields 0.
atoi(s) ==
    LET t == SkipSpaces(s)
        m == Decimal(LeadingDigits(Unsigned(t)), 0)
    IN  IF t # <<>> /\ Head(t) = "-" THEN 0 - m ELSE m

\* The double 0.0.
Zero == [neg |-> FALSE, int |-> 0, frac |-> <<>>]

\* The fraction digits without their trailing zeros.
RECURSIVE TrimZeros(_)
TrimZeros(ds) ==
    IF ds # <<>> /\ ds[Len(ds)] = "0" THEN TrimZeros(SubSeq(ds, 1, Len(ds) - 1))
    ELSE ds

(***************************************************************************)
(* strtod(s, NULL) for the decimal form: white space, an optional sign,    *)
(* digits, an optional '.' and digits.  The number is kept as its sign,    *)
(* integer part and fraction digits.  No value of the documents has an     *)
(* exponent, a hexadecimal prefix or a spelled-out infinity or NaN.        *)
(***************************************************************************)
strtod(s) ==
    LET t    == SkipSpaces(s)
        u    == Unsigned(t)
        ip   == LeadingDigits(u)
        rest == SubSeq(u, Len(ip) + 1, Len(u))
        fp   == IF rest # <<>> /\ Head(rest) = "." THEN LeadingDigits(Tail(rest))
                ELSE <<>>
    IN  IF ip = <<>> /\ fp = <<>> THEN Zero
        ELSE [neg |-> t # <<>> /\ Head(t) = "-", int |-> Decimal(ip, 0),
              frac |-> TrimZeros(fp)]

\* getXMLInt giving 0 when there is no value.
getXMLIntOrZero(path, r, ns, as, defaultValue) ==
    LET v == getXMLValue(path, r, ns, as)
    IN  [st |-> v.st, log |-> v.log,
         int |-> IF v.value = NullStr THEN 0 ELSE atoi(v.value)]

\* getXMLInt: atoi of the value, or defaultValue when there is none.
getXMLInt(path, r, ns, as, defaultValue) ==
    LET v == getXMLValue(path, r, ns, as)
    IN  [st |-> v.st, log |-> v.log,
         int |-> IF v.value = NullStr THEN defaultValue ELSE atoi(v.value)]

\* getXMLBool comparing only as many characters as "true" and "false" have.
getXMLBoolByPrefix(path, r, ns, as, defaultValue) ==
    LET v == getXMLValue(path, r, ns, as)
    IN  [st |-> v.st, log |-> v.log,
         int |-> IF Len(v.value) >= 4 /\ SubSeq(v.value, 1, 4) = <<"t", "r", "u", "e">>
                 THEN 1
                 ELSE IF Len(v.value) >= 5
                         /\ SubSeq(v.value, 1, 5) = <<"f", "a", "l", "s", "e">>
                 THEN 0
                 ELSE defaultValue]

\* getXMLBool: 1 for "true", 0 for "false", defaultValue otherwise.
getXMLBool(path, r, ns, as, defaultValue) ==
    LET v == getXMLValue(path, r, ns, as)
    IN  [st |-> v.st, log |-> v.log,
         int |-> IF v.value = <<"t", "r", "u", "e">> THEN 1
                 ELSE IF v.value = <<"f", "a", "l", "s", "e">> THEN 0
                 ELSE defaultValue]

\* getXMLDouble: strtod of the value, or defaultValue when there is none.
getXMLDouble(path, r, ns, as, defaultValue) ==
    LET v == getXMLValue(path, r, ns, as)
    IN  [st |-> v.st, log |-> v.log,
         dbl |-> IF v.value = NullStr THEN defaultValue ELSE strtod(v.value)]

-----------------------------------------------------------------------------
(* Queries on the loaded document *)

\* Most segments an enumerated path is made of.
MaxSegments == 2

\* The segments joined by '/'.
RECURSIVE JoinPath(_)
JoinPath(segs) ==
    IF segs = <<>> THEN <<>>
    ELSE IF Len(segs) = 1 THEN segs[1]
    ELSE segs[1] \o <<"/">> \o JoinPath(Tail(segs))

\* A value query [segs, end, attr] written as a path: s1/.../sN then '$',
\* ':' and an attribute name, or nothing.
ValuePath(d) ==
    JoinPath(d.segs) \o
        (IF d.end = "$" THEN <<"$">>
         ELSE IF d.end = ":" THEN <<":">> \o d.attr
         ELSE <<>>)

\* A segment [name, pred, attr, value] of a node query: name or
\* name?attr=value.
NodeSegment(sg) ==
    IF sg.pred THEN sg.name \o <<"?">> \o sg.attr \o <<"=">> \o sg.value
    ELSE sg.name

\* A node query (a sequence of segments) written as a path.
NodePath(d) == JoinPath([i \in 1..Len(d) |-> NodeSegment(d[i])])

SegLists(S) == UNION {[1..n -> S] : n \in 1..MaxSegments}

ValueEnds ==
    { [end |-> "$", attr |-> <<>>],
      [end |-> ":", attr |-> <<"x">>],
      [end |-> ":", attr |-> <<"y">>],
      [end |-> "",  attr |-> <<>>] }

\* root/foo/bar$
QueryBarText ==
    [segs |-> << <<"r","o","o","t">>, <<"f","o","o">>, <<"b","a","r">> >>,
     end |-> "$", attr |-> <<>>]
\* root/foo/bar:baz
QueryBarBaz ==
    [segs |-> << <<"r","o","o","t">>, <<"f","o","o">>, <<"b","a","r">> >>,
     end |-> ":", attr |-> <<"b","a","z">>]
\* root/foo/missing$
QueryMissingText ==
    [segs |-> << <<"r","o","o","t">>, <<"f","o","o">>,
                 <<"m","i","s","s","i","n","g">> >>,
     end |-> "$", attr |-> <<>>]

\* o:t, o:f, o:u, o:s, o:e and o$
Flag(name) == [segs |-> << <<"o">> >>, end |-> ":", attr |-> <<name>>]
FlagQueries ==
    {Flag(name) : name \in {"t", "f", "u", "s", "e"}}
        \cup {[segs |-> << <<"o">> >>, end |-> "$", attr |-> <<>>]}

\* r/b/c:x
QueryLaterSibling ==
    [segs |-> << <<"r">>, <<"b">>, <<"c">> >>, end |-> ":", attr |-> <<"x">>]

\* The lengths of a path segment around the capacity of the scratch buffers
\* of getXMLValue and getXMLNode.
SegmentLengths ==
    {XML_BUFFER_LENGTH - 1, XML_BUFFER_LENGTH, XML_BUFFER_LENGTH + 1}

\* nnn...n$ and a:nnn...n
LongValueQueries ==
    UNION { { [segs |-> << LongName(k) >>, end |-> "$", attr |-> <<>>],
              [segs |-> << <<"a">> >>, end |-> ":", attr |-> LongName(k)] } :
            k \in SegmentLengths }

ExampleValueQueries ==
    {QueryBarText, QueryBarBaz, QueryMissingText, QueryLaterSibling}
        \cup FlagQueries \cup LongValueQueries

ValueQueries ==
    ExampleValueQueries \cup
    { [segs |-> sl, end |-> e.end, attr |-> e.attr] :
        sl \in SegLists({<<"a">>, <<"b">>, <<"c">>, <<"A">>}), e \in ValueEnds }

Plain(name) == [name |-> name, pred |-> FALSE, attr |-> <<>>, value |-> <<>>]
With(name, attr, value) ==
    [name |-> name, pred |-> TRUE, attr |-> attr, value |-> value]

\* item?id=2 and item?id=9
QuerySecondItem == << With(<<"i","t","e","m">>, <<"i","d">>, <<"2">>) >>
QueryNoItem == << With(<<"i","t","e","m">>, <<"i","d">>, <<"9">>) >>

\* nnn...n, a?nnn...n=1 and a?x=nnn...n
LongNodeQueries ==
    UNION { { << Plain(LongName(k)) >>,
              << With(<<"a">>, LongName(k), <<"1">>) >>,
              << With(<<"a">>, <<"x">>, LongName(k)) >> } :
            k \in SegmentLengths }

\* item?id=1, item?id=2, item?id=9, item, r/item, b?x= (no value)
ExampleNodeQueries ==
    { << With(<<"i","t","e","m">>, <<"i","d">>, <<"1">>) >>,
      QuerySecondItem, QueryNoItem,
      << Plain(<<"i","t","e","m">>) >>,
      << Plain(<<"r">>), Plain(<<"i","t","e","m">>) >>,
      << With(<<"b">>, <<"x">>, <<>>) >> }
        \cup LongNodeQueries

NodeSegments ==
    { Plain(<<"b">>), Plain(<<"c">>),
      With(<<"b">>, <<"y">>, <<"2">>), With(<<"c">>, <<"x">>, <<"1", "2">>) }

NodeQueries == ExampleNodeQueries \cup SegLists(NodeSegments)

(***************************************************************************)
(* What a getXMLNode call finds in memory it never wrote: iAtBuf,          *)
(* attrBuffer and valueBuffer are the uninitialized locals of its frame,   *)
(* beyond the bytes that follow the path (its terminating NUL first; the   *)
(* last of them is followed by a NUL, and past that the read faults).      *)
(***************************************************************************)
Junk ==
    { [iAtBuf |-> 0, attrBuffer |-> <<>>, valueBuffer |-> <<>>, beyond |-> <<>>],
      [iAtBuf |-> 1, attrBuffer |-> <<"x">>, valueBuffer |-> <<"1">>,
       beyond |-> <<>>],
      [iAtBuf |-> 0, attrBuffer |-> <<>>, valueBuffer |-> <<>>,
       beyond |-> <<NUL, "2">>] }

\* The defaults handed to the typed accessors.
DefaultStrings == {<<"d">>}
DefaultInts == {0, 7}

\* What a query left: the call and, by kind, the value, node or number
\* returned.
Returned(op, query, start, st, value, node, int, dbl, lg) ==
    [op |-> op, query |-> query, start |-> start, st |-> st, value |-> value,
     node |-> node, int |-> int, dbl |-> dbl, log |-> lg]

\* What a typed accessor left: as above, with the default it was given.
ReturnedTyped(op, query, start, st, value, int, dbl, lg, defaultValue) ==
    [op |-> op, query |-> query, start |-> start, st |-> st, value |-> value,
     node |-> NULL, int |-> int, dbl |-> dbl, log |-> lg,
     default |-> defaultValue]

\* The double an integer stands for.
Double(n) == [neg |-> n < 0, int |-> IF n < 0 THEN 0 - n ELSE n, frac |-> <<>>]

\* The variables no query writes.
tree == <<file, pos, nodes, attrs, tag, root, current, result, stack, log>>

\* getXMLValue destroying the root when the path resolves to nothing.
CallGetXMLValueTearingDown ==
    /\ pc = "done"
    /\ q.op = "none"
    /\ \E d \in ValueQueries :
         LET r == getXMLValue(ValuePath(d), result, nodes, attrs)
         IN  /\ q' = Returned("getXMLValue", d, result, r.st, r.value, NULL, 0,
                              Zero, r.log)
             /\ nodes' = IF r.value = NullStr /\ result # NULL
                         THEN [nodes EXCEPT ![result].live = FALSE]
                         ELSE nodes
    /\ UNCHANGED <<file, pos, attrs, tag, root, current, pc, result, stack, log>>

\* getXMLValue(path, xml) on the loaded document.
CallGetXMLValue ==
    /\ pc = "done"
    /\ q.op = "none"
    /\ \E d \in ValueQueries :
         LET r == getXMLValue(ValuePath(d), result, nodes, attrs)
         IN  /\ q' = Returned("getXMLValue", d, result, r.st, r.value, NULL, 0,
                              Zero, r.log)
             /\ pc' = IF r.st = "ub" THEN "crashed" ELSE pc
    /\ UNCHANGED tree

\* getXMLNode(path, n) on a node n of the loaded document, or on NULL. A read
\* outside the mapped bytes or of NULL->first ends the run.
CallGetXMLNode ==
    /\ pc = "done"
    /\ q.op = "none"
    /\ \E d \in NodeQueries, n \in {NULL} \cup {i \in 1..Len(nodes) : nodes[i].live},
          j \in Junk :
         LET r == getXMLNode(NodePath(d) \o j.beyond, n, nodes, attrs, j)
         IN  /\ q' = Returned("getXMLNode", d, n, r.st, NullStr, r.node, 0,
                              Zero, r.log)
             /\ pc' = IF r.st = "ub" THEN "crashed" ELSE pc
    /\ UNCHANGED tree

\* getXMLString(path, xml, defaultValue)
CallGetXMLString ==
    /\ pc = "done"
    /\ q.op = "none"
    /\ \E d \in ValueQueries, def \in DefaultStrings :
         LET r == getXMLString(ValuePath(d), result, nodes, attrs, def)
         IN  /\ q' = ReturnedTyped("getXMLString", d, result, r.st, r.value, 0,
                                   Zero, r.log, def)
             /\ pc' = IF r.st = "ub" THEN "crashed" ELSE pc
    /\ UNCHANGED tree

\* getXMLInt(path, xml, defaultValue)
CallGetXMLInt ==
    /\ pc = "done"
    /\ q.op = "none"
    /\ \E d \in ValueQueries, def \in DefaultInts :
         LET r == getXMLInt(ValuePath(d), result, nodes, attrs, def)
         IN  /\ q' = ReturnedTyped("getXMLInt", d, result, r.st, NullStr, r.int,
                                   Zero, r.log, def)
             /\ pc' = IF r.st = "ub" THEN "crashed" ELSE pc
    /\ UNCHANGED tree

\* getXMLBool(path, xml, defaultValue)
CallGetXMLBool ==
    /\ pc = "done"
    /\ q.op = "none"
    /\ \E d \in ValueQueries, def \in DefaultInts :
         LET r == getXMLBool(ValuePath(d), result, nodes, attrs, def)
         IN  /\ q' = ReturnedTyped("getXMLBool", d, result, r.st, NullStr, r.int,
                                   Zero, r.log, def)
             /\ pc' = IF r.st = "ub" THEN "crashed" ELSE pc
    /\ UNCHANGED tree

\* getXMLDouble(path, xml, defaultValue)
CallGetXMLDouble ==
    /\ pc = "done"
    /\ q.op = "none"
    /\ \E d \in ValueQueries, def \in DefaultInts :
         LET r == getXMLDouble(ValuePath(d), result, nodes, attrs, Double(def))
         IN  /\ q' = ReturnedTyped("getXMLDouble", d, result, r.st, NullStr, 0,
                                   r.dbl, r.log, Double(def))
             /\ pc' = IF r.st = "ub" THEN "crashed" ELSE pc
    /\ UNCHANGED tree

\* The query returns to its caller; its frame is gone.
Return ==
    /\ pc = "done"
    /\ q.op # "none"
    /\ q' = NoQuery
    /\ UNCHANGED <<tree, pc>>

\* The kind of a chunk: an opening, closing or unique tag, or text.
ChunkKind(c) ==
    IF c[1] # "<" THEN "text"
    ELSE IF c[2] = "/" THEN "close"
    ELSE IF c[Len(c) - 1] = "/" THEN "unique"
    ELSE "open"

\* Opening minus closing tags among the first k chunks.
Depth(cs, k) ==
    Cardinality({i \in 1..k : ChunkKind(cs[i]) = "open"})
  - Cardinality({i \in 1..k : ChunkKind(cs[i]) = "close"})

\* A document: one unique tag, or an opening tag closed by the last chunk.
WellFormed(cs) ==
    /\ cs # <<>>
    /\ \/ Len(cs) = 1 /\ ChunkKind(cs[1]) = "unique"
       \/ /\ ChunkKind(cs[1]) = "open"
          /\ \A k \in 1..(Len(cs) - 1) : Depth(cs, k) >= 1
          /\ Depth(cs, Len(cs)) = 0

\* The chunks of the documents that are queried.
QueryChunks ==
    { <<"<", "a", ">">>,
      <<"<", "/", "a", ">">>,
      <<"<", "b", "/", ">">>,
      <<"<", "b", " ", "x", "=", "\"", "1", "\"", " ", "y", "=", "\"", "2", "\"", ">">>,
      <<"<", "c", " ", "x", "=", "\"", "1", "\"", " ", "x", "=", "\"", "2", "\"", "/", ">">>,
      <<"h", "i">> }

\* The queried streams: the examples, an empty stream, a lone closing tag and
\* every well-formed document of at most MaxChunks chunks.
QueryInputs ==
    Examples \cup {<<>>, <<"<", "/", "a", ">">>} \cup
    {Flatten(cs) : cs \in {l \in UNION {[1..n -> QueryChunks] : n \in 1..MaxChunks} :
                             WellFormed(l)}}

QueryInit == InitOn(QueryInputs)

QueryNext ==
    \/ Next
    \/ CallGetXMLValue
    \/ CallGetXMLNode
    \/ CallGetXMLString
    \/ CallGetXMLInt
    \/ CallGetXMLBool
    \/ CallGetXMLDouble
    \/ Return

QuerySpec == QueryInit /\ [][QueryNext]_vars

-----------------------------------------------------------------------------
(* loadXMLFile and checkFirstLineXMLFile (xml.c) *)

\* <?xml version="1.0" encoding="UTF-8"?> and a line feed.
XML_FIRST_LINE ==
    <<"<","?","x","m","l"," ","v","e","r","s","i","o","n","=","\"","1",".","0",
      "\""," ","e","n","c","o","d","i","n","g","=","\"","U","T","F","-","8",
      "\"","?",">","\n">>

\* fgets(s, n, file) at read position p: at most n - 1 characters are read,
\* the line feed that ends the line being the last one; NULL when the stream
\* is at its end.
fgets(f, p, n) ==
    LET nl   == FirstAt(f, p, "\n")
        most == IF p + n - 1 < Len(f) THEN p + n - 1 ELSE Len(f)
        end  == IF nl # 0 /\ nl < most THEN nl ELSE most
    IN  [null |-> p >= Len(f), line |-> Slice(f, p + 1, end), pos |-> end]

\* checkFirstLineXMLFile on an open stream: 1 when the line read equals
\* XML_FIRST_LINE, 0 otherwise and when nothing could be read.
checkFirstLineXMLFile(f, p) ==
    LET r == fgets(f, p, XML_BUFFER_LENGTH)
    IN  IF r.null
        THEN [result |-> 0, pos |-> r.pos, log |-> <<"file: can't read first line">>]
        ELSE [result |-> IF r.line = XML_FIRST_LINE THEN 1 ELSE 0, pos |-> r.pos,
              log |-> <<>>]

\* What checkFirstLineXMLFile returned to loadXMLFile.
Checked(b) == [op |-> "checkFirstLineXMLFile", result |-> b]

\* loadXMLFile up to its call of parseXMLFile: the file is opened, its first
\* line is tested and the result of the test is dropped.  When fopen
\* fails, xml->file is NULL, the test logs it and parseXMLFile is called on
\* the NULL stream, which fgetc may not be given.
LoadXMLFile ==
    /\ pc = "load"
    /\ \E opened \in BOOLEAN :
         LET c == checkFirstLineXMLFile(file, pos)
         IN  IF opened
             THEN /\ pos' = c.pos
                  /\ log' = log \o c.log
                  /\ q' = Checked(c.result)
                  /\ pc' = "start"
             ELSE /\ log' = log \o <<"file: can't open", "file: NULL file">>
                  /\ q' = Checked(0)
                  /\ pc' \in UBOutcomes
                  /\ UNCHANGED pos
    /\ UNCHANGED <<file, nodes, attrs, tag, root, current, result, stack>>

\* Most chunks of the document behind the first line.
MaxLoadChunks == 2

\* A line of k characters and its line feed.
LongLine(k) == [i \in 1..k |-> "c"] \o <<"\n">>

\* The first lines: the declaration, another declaration, an empty line,
\* none at all, and lines about as long as the buffer they are read into.
FirstLines ==
    { XML_FIRST_LINE,
      <<"<", "?", "x", "m", "l", "?", ">", "\n">>,
      <<"\n">>,
      <<>> }
      \cup {LongLine(k) : k \in (XML_BUFFER_LENGTH - 2)..(XML_BUFFER_LENGTH + 1)}

\* What follows the first line.
Remainders ==
    Examples \cup
    {Flatten(cs) : cs \in UNION {[1..n -> Chunks] : n \in 0..MaxLoadChunks}}

LoadInputs == {l \o d : l \in FirstLines, d \in Remainders}

\* The state when loadXMLFile has created the XML_File.
LoadInit ==
    /\ file \in LoadInputs
    /\ pos = 0
    /\ nodes = <<>>
    /\ attrs = <<>>
    /\ tag = NoTag
    /\ root = NULL
    /\ current = NULL
    /\ pc = "load"
    /\ result = NULL
    /\ stack = <<>>
    /\ log = <<>>
    /\ q = NoQuery

LoadNext == LoadXMLFile \/ Next

LoadSpec == LoadInit /\ [][LoadNext]_vars

-----------------------------------------------------------------------------
(* addXMLNodeToParent and deleteXMLNodeFromParent called on any nodes *)

\* Most nodes created.
MaxNodes == 3

\* The call made last, with its arguments; was is child->parent as the call
\* found it.
NodeCall(op, parent, child, was) ==
    [op |-> op, parent |-> parent, child |-> child, was |-> was]

\* n->parent, NULL for the NULL node.
ParentOf(ns, n) == IF n = NULL THEN NULL ELSE ns[n].parent

\* createXMLNode().
CallCreateXMLNode ==
    /\ pc = "nodes"
    /\ Len(nodes) < MaxNodes
    /\ nodes' = createXMLNode(nodes)
    /\ q' = NodeCall("createXMLNode", NULL, NULL, NULL)
    /\ UNCHANGED <<file, pos, attrs, tag, root, current, pc, result, stack, log>>

\* addXMLNodeToParent(parent, child), each a created node or NULL.  The
\* messages of the refused calls are not kept.
CallAddXMLNodeToParent ==
    /\ pc = "nodes"
    /\ \E parent, child \in 0..Len(nodes) :
         /\ nodes' = addXMLNodeToParent(nodes, parent, child)
         /\ q' = NodeCall("addXMLNodeToParent", parent, child, ParentOf(nodes, child))
    /\ UNCHANGED <<file, pos, attrs, tag, root, current, pc, result, stack, log>>

\* deleteXMLNodeFromParent(child), child a created node or NULL.
CallDeleteXMLNodeFromParent ==
    /\ pc = "nodes"
    /\ \E child \in 0..Len(nodes) :
         /\ nodes' = deleteXMLNodeFromParent(nodes, child)
         /\ q' = NodeCall("deleteXMLNodeFromParent", NULL, child, ParentOf(nodes, child))
    /\ UNCHANGED <<file, pos, attrs, tag, root, current, pc, result, stack, log>>

NodeInit ==
    /\ file = <<>>
    /\ pos = 0
    /\ nodes = <<>>
    /\ attrs = <<>>
    /\ tag = NoTag
    /\ root = NULL
    /\ current = NULL
    /\ pc = "nodes"
    /\ result = NULL
    /\ stack = <<>>
    /\ log = <<>>
    /\ q = NoQuery

NodeNext ==
    \/ CallCreateXMLNode
    \/ CallAddXMLNodeToParent
    \/ CallDeleteXMLNodeFromParent

NodeSpec == NodeInit /\ [][NodeNext]_vars

-----------------------------------------------------------------------------
(* Properties of the tree parseXMLFile builds *)

\* The nodes reached from n by following next, n first, at most k of them.
RECURSIVE Chain(_, _, _)
Chain(ns, n, k) ==
    IF n = NULL \/ k = 0 THEN <<>>
    ELSE <<n>> \o Chain(ns, ns[n].next, k - 1)

\* The children of n, as walking next from n->first finds them.
Children(ns, n) == Chain(ns, ns[n].first, Len(ns))

\* The attributes reached from a by following next, a first.
RECURSIVE AttributeList(_, _, _)
AttributeList(as, a, k) ==
    IF a = NULL \/ k = 0 THEN <<>>
    ELSE <<a>> \o AttributeList(as, as[a].next, k - 1)

\* The attributes of node n, from the head of its list.
AttributesOf(n) == AttributeList(attrs, nodes[n].attr, Len(attrs))

Live == {n \in 1..Len(nodes) : nodes[n].live}

\* parseXMLFile returned a tree.
Parsed == pc = "done" /\ result # NULL

Increasing(seq) == \A i \in 1..(Len(seq) - 1) : seq[i] < seq[i + 1]
Decreasing(seq) == \A i \in 1..(Len(seq) - 1) : seq[i] > seq[i + 1]

\* cc, last, previous and parent of n and its children agree with the walk
\* from n->first.
ChildListConsistent(ns, n) ==
    LET ch == Children(ns, n)
    IN  /\ ns[n].cc = Len(ch)
        /\ ns[n].last = IF ch = <<>> THEN NULL ELSE ch[Len(ch)]
        /\ ch # <<>> => ns[ch[Len(ch)]].next = NULL /\ ns[ch[1]].previous = NULL
        /\ \A i \in 1..(Len(ch) - 1) : ns[ch[i + 1]].previous = ch[i]
        /\ \A i \in 1..Len(ch) : ns[ch[i]].parent = n

\* C1: in every tree parseXMLFile returns, every node's cc is the number of
\* nodes reached by following next from its first child, its last is the final
\* node of that chain, previous is the inverse of next along the chain, and
\* every node of the chain has the node as parent.
ChildListsConsistent ==
    Parsed => \A n \in Live : ChildListConsistent(nodes, n)

\* A returned tree with a node that has two children.
TwoChildrenParsed ==
    /\ Parsed
    /\ \E n \in Live :
         /\ nodes[n].cc = 2
         /\ nodes[nodes[n].first].next = nodes[n].last
         /\ nodes[n].first # nodes[n].last

\* The step appends a new node, named after the tag, as the last child of
\* current.
AppendsChild ==
    /\ Len(nodes') = Len(nodes) + 1
    /\ LET child == Len(nodes')
       IN  /\ nodes'[child].name = tag.name
           /\ nodes'[child].parent = current
           /\ nodes'[child].next = NULL
           /\ nodes'[child].previous = nodes[current].last
           /\ nodes'[current].last = child
           /\ Children(nodes', current) = Append(Children(nodes, current), child)

\* <a><b>text</b></a> yields root a with the one child b of value "text".
NestingParsed ==
    /\ result # NULL
    /\ nodes[result].name = <<"a">>
    /\ nodes[result].parent = NULL
    /\ Len(Children(nodes, result)) = 1
    /\ LET b == nodes[result].first
       IN  /\ nodes[b].name = <<"b">>
           /\ nodes[b].value = <<"t", "e", "x", "t">>
           /\ Children(nodes, b) = <<>>

\* The children of every node are in the order in which they were created.
SiblingsInDocumentOrder == \A n \in Live : Increasing(Children(nodes, n))

(***************************************************************************)
(* C2: in the loop of parseXMLFile an opening tag creates a node appended  *)
(* as the last child of current and makes it current, a unique tag creates *)
(* a node appended as the last child and leaves current alone, a closing   *)
(* tag moves current to its parent, or ends parsing with the root returned *)
(* when current is the root; so the children of every node are in document *)
(* order (nodes are numbered as their tags are read), and                  *)
(* <a><b>text</b></a> yields root a with exactly one child b whose value   *)
(* is "text".                                                              *)
(***************************************************************************)
TagsBuildTheTree ==
    [][ /\ (pc = "tag" /\ tag.type = "OPENING")
           => (AppendsChild /\ current' = Len(nodes') /\ pc' = "loop")
        /\ (pc = "tag" /\ tag.type = "UNIQUE")
           => (AppendsChild /\ current' = current /\ pc' = "loop")
        /\ (pc = "tag" /\ tag.type = "CLOSING")
           => IF current # root
              THEN /\ current' = nodes[current].parent
                   /\ current' # NULL
                   /\ nodes' = nodes
                   /\ pc' = "loop"
              ELSE /\ pc' = "done"
                   /\ result' = root
                   /\ nodes' = nodes
        /\ SiblingsInDocumentOrder'
        /\ (file' = DocNesting /\ pc' = "done") => NestingParsed' ]_vars

\* <a><b>text</b></a> has been parsed to a tree.
NestingReturned ==
    /\ file = DocNesting
    /\ Parsed
    /\ nodes[result].cc = 1
    /\ nodes[nodes[result].first].value # NullStr

\* The names, and the values, of the attributes of node n from the head.
AttributeNames(n) ==
    [i \in 1..Len(AttributesOf(n)) |-> attrs[AttributesOf(n)[i]].name]
AttributeValues(n) ==
    [i \in 1..Len(AttributesOf(n)) |-> attrs[AttributesOf(n)[i]].value]

(***************************************************************************)
(* C3, as it holds: read from its head, the attribute list of a node is in *)
(* document order (attributes are numbered as they are read); only the     *)
(* list of the tag being read is in reverse order, and moving it to the    *)
(* node head first reverses it again.  <a x="1" y="2"/> yields a node      *)
(* whose attribute list is x then y.                                       *)
(***************************************************************************)
NodeAttributesInDocumentOrder ==
    /\ \A n \in Live : Increasing(AttributesOf(n))
    /\ Decreasing(AttributeList(attrs, tag.attr, Len(attrs)))
    /\ (file = DocTwoAttributes /\ pc = "done")
       => /\ result # NULL
          /\ AttributeNames(result) = << <<"x">>, <<"y">> >>
          /\ AttributeValues(result) = << <<"1">>, <<"2">> >>

\* C3 as stated: the attribute list of a parsed node is the reverse of
\* document order, y then x for <a x="1" y="2"/>.
NodeAttributesReversed ==
    /\ Parsed => \A n \in Live : Decreasing(AttributesOf(n))
    /\ (file = DocTwoAttributes /\ pc = "done")
       => /\ result # NULL
          /\ AttributeNames(result) = << <<"y">>, <<"x">> >>

\* <a x="1" y="2"/> has been parsed to a node with two attributes.
TwoAttributesParsed ==
    /\ file = DocTwoAttributes
    /\ Parsed
    /\ Len(AttributesOf(result)) = 2

\* readXMLAttribute met a character other than '"' after '='.
BadAttributeLogged == \E i \in 1..Len(log) : log[i] = "attribute: badly parsed"

\* C5 as stated: readXMLTag returns no tag whenever the character after an
\* attribute's '=' is not '"'; reading <a k=v> returns no tag.
BadAttributeFailsTag ==
    /\ (pc = "first" /\ BadAttributeLogged) => tag = NoTag
    /\ (pc = "first" /\ file = DocNoQuote) => tag = NoTag

\* A chunk of white space only.
IsBlank(c) == \A i \in 1..Len(c) : c[i] \in {" ", "\n"}

\* Tags and text that end while a node is still open: the first chunk opens
\* the root and the closing tags never balance the opening ones.
Unclosed(cs) ==
    /\ cs # <<>>
    /\ ChunkKind(cs[1]) = "open"
    /\ \A k \in 1..Len(cs) : Depth(cs, k) >= 1 /\ ~IsBlank(cs[k])

UnclosedInputs ==
    {DocUnbalanced} \cup {Flatten(cs) : cs \in {l \in ChunkLists : Unclosed(l)}}

-----------------------------------------------------------------------------
(* Properties of the queries *)

\* The least and the greatest element of a non-empty set of numbers.
Least(S) == CHOOSE x \in S : \A y \in S : x <= y
Greatest(S) == CHOOSE x \in S : \A y \in S : x >= y

Range(seq) == {seq[i] : i \in 1..Len(seq)}

\* The first node named name among n and the siblings that follow it, NULL
\* when there is none.
FirstNamed(n, name) ==
    LET ch == Chain(nodes, n, Len(nodes))
        at == {i \in 1..Len(ch) : nodes[ch[i]].name = name}
    IN  IF at = {} THEN NULL ELSE ch[Least(at)]

\* The node a chain of segments leads to from n: the first segment is matched
\* among n and its siblings, each later one among the children of the node
\* matched before.
RECURSIVE Resolve(_, _)
Resolve(n, segs) ==
    LET m == FirstNamed(n, segs[1])
    IN  IF m = NULL \/ Len(segs) = 1 THEN m
        ELSE Resolve(nodes[m].first, Tail(segs))

\* The attributes of node n named name, in the order of its list.
Named(n, name) ==
    SelectSeq(AttributesOf(n), LAMBDA a : attrs[a].name = name)

\* What a value query means: the text of the node its segments lead to, or
\* the value of the first attribute of that name; NullStr is not-found.
Meaning(d) ==
    LET n == Resolve(result, d.segs)
    IN  IF n = NULL THEN NullStr
        ELSE IF d.end = "$" THEN nodes[n].value
        ELSE IF d.end = ":" /\ Named(n, d.attr) # <<>>
        THEN attrs[Named(n, d.attr)[1]].value
        ELSE NullStr

(***************************************************************************)
(* C7: getXMLValue resolves s1/.../sN$ or s1/.../sN:attr by matching s1    *)
(* against the root and its sibling chain and each later segment against   *)
(* the first child, in sibling order, whose name equals the segment case-  *)
(* sensitively; it returns that node's text for '$', the value of its      *)
(* first attribute named attr for ':attr', and NULL when a segment or the  *)
(* attribute has no match.  On                                             *)
(* <root><foo><bar baz="1">hi</bar></foo></root>, root/foo/bar$ gives      *)
(* "hi", root/foo/bar:baz gives "1" and root/foo/missing$ gives NULL.      *)
(***************************************************************************)
ValueQueryResolves ==
    (q.op = "getXMLValue" /\ q.query.end \in {"$", ":"})
    => /\ q.st = "ok"
       /\ q.value = Meaning(q.query)
       /\ (file = DocValueQuery /\ q.query = QueryBarText) => q.value = <<"h", "i">>
       /\ (file = DocValueQuery /\ q.query = QueryBarBaz) => q.value = <<"1">>
       /\ (file = DocValueQuery /\ q.query = QueryMissingText) => q.value = NullStr

\* root/foo/bar$ has returned "hi".
BarTextReturned ==
    /\ file = DocValueQuery
    /\ q.op = "getXMLValue"
    /\ q.query = QueryBarText
    /\ q.value = <<"h", "i">>

\* An attribute lookup that returned a value: the node it looked in and the
\* attributes of that node that have the name looked for.
LookedUp == q.op = "getXMLValue" /\ q.query.end = ":" /\ q.value # NullStr
LookupMatches == Named(Resolve(result, q.query.segs), q.query.attr)

(***************************************************************************)
(* C4, as it holds: when a node carries attributes of the same name, a     *)
(* lookup through getXMLValue (path ending in :name) returns the value of  *)
(* the one that occurs first in the document, the earliest parsed.         *)
(***************************************************************************)
LookupReturnsEarliest ==
    LookedUp
    => /\ LookupMatches # <<>>
       /\ q.value = attrs[Least(Range(LookupMatches))].value

\* C4 as stated: the lookup returns the value of the most recently parsed
\* attribute of that name, the one that occurs later in the document.
LookupReturnsLatest ==
    LookedUp
    => /\ LookupMatches # <<>>
       /\ q.value = attrs[Greatest(Range(LookupMatches))].value

\* A lookup of a name that two attributes of the node have, with different
\* values.
DuplicateLookedUp ==
    /\ LookedUp
    /\ Len(LookupMatches) = 2
    /\ attrs[LookupMatches[1]].value # attrs[LookupMatches[2]].value

\* Node n has the segment's name and owns an attribute with exactly the
\* name and the value of the segment's predicate.
Satisfies(n, sg) ==
    /\ nodes[n].name = sg.name
    /\ \E i \in 1..Len(AttributesOf(n)) :
         /\ attrs[AttributesOf(n)[i]].name = sg.attr
         /\ attrs[AttributesOf(n)[i]].value = sg.value

\* The first node among n and the siblings that follow it that satisfies the
\* segment, NULL when there is none.
FirstSatisfying(n, sg) ==
    LET ch == Chain(nodes, n, Len(nodes))
        at == {i \in 1..Len(ch) : Satisfies(ch[i], sg)}
    IN  IF at = {} THEN NULL ELSE ch[Least(at)]

\* getXMLNode returned from a path of the one segment name?attr=value.
PredicateQueried ==
    /\ q.op = "getXMLNode"
    /\ q.st = "ok"
    /\ Len(q.query) = 1
    /\ q.query[1].pred

\* C8 as stated: getXMLNode with a segment name?attr=value returns the first
\* node of the scanned sibling list that has the name and owns an attribute
\* of exactly that name and value, skipping same-named siblings that fail the
\* predicate; on <item id="1"/><item id="2"/>, item?id=2 returns the second
\* item.
PredicateSelects ==
    PredicateQueried => q.node = FirstSatisfying(q.start, q.query[1])

QueriesLeaveTheTree ==
    [][pc = "done" => (nodes' = nodes /\ attrs' = attrs /\ result' = result)]_vars

\* getXMLValue has returned NULL, for a path that resolves to nothing in a
\* document that was parsed to a tree.
NotFoundReturned ==
    /\ Parsed
    /\ Live # {}
    /\ q.op = "getXMLValue"
    /\ q.value = NullStr
    /\ q.log # <<>>

-----------------------------------------------------------------------------
(* Scratch buffers and end of input *)

\* Where the tag read of the next step starts: at the read position when the
\* first tag is read, after the value of the current node otherwise.
TagReadAt ==
    IF pc = "start" THEN pos ELSE readXMLNodeValue(nodes, current, file, pos).pos

\* A step that reads a tag and comes back from readXMLTag.
TagReadStep == pc \in {"start", "loop"} /\ pc' \in {"first", "tag"}

\* The name of the tag that starts at position p of f: the characters after
\* the optional '<' and '/', up to the first ' ', '>' or '/' or to the end
\* of the stream.
NameFrom(f, p) ==
    LET a    == IF fgetc(f, p) = "<" THEN p + 1 ELSE p
        b    == IF fgetc(f, a) = "/" THEN a + 1 ELSE a
        ends == {i \in (b + 1)..Len(f) : f[i] \in {" ", ">", "/"}}
        e    == IF ends = {} THEN Len(f) ELSE Least(ends) - 1
    IN  Slice(f, b + 1, e)

\* What the name loop of the tag read at position p does.
NameLoopAt(f, p) ==
    IF fgetc(f, p) = "<"
    THEN NameLoop(f, fgetc(f, Advance(f, p)), Advance(f, Advance(f, p)))
    ELSE NameLoop(f, fgetc(f, p), Advance(f, p))

(***************************************************************************)
(* C11: readXMLTag fails with the buffer-full error for every tag name of  *)
(* XML_BUFFER_LENGTH or more characters, and while it reads a name it      *)
(* never writes a character or the terminating NUL at an index of          *)
(* strBuffer outside 0..XML_BUFFER_LENGTH-1.                               *)
(***************************************************************************)
LongNameFails ==
    [][TagReadStep =>
         /\ NameLoopAt(file, TagReadAt).top \in 0..(XML_BUFFER_LENGTH - 1)
         /\ Len(NameFrom(file, TagReadAt)) >= XML_BUFFER_LENGTH
              => /\ tag' = NoTag
                 /\ log' # <<>>
                 /\ log'[Len(log')] = "tag: buffer full"]_vars

\* The first tag, whose name has exactly XML_BUFFER_LENGTH characters, has
\* been read and refused.
NameOfBufferLengthRefused ==
    /\ pc = "first"
    /\ Len(NameFrom(file, 0)) = XML_BUFFER_LENGTH
    /\ tag = NoTag
    /\ log = <<"tag: buffer full">>

\* The streams of LongTextDocs with an attribute name, an attribute value or
\* a text of XML_BUFFER_LENGTH characters or more; '=', both '"' and the
\* closing tag are there.
OversizedDocs ==
    UNION {{AttributeNameDoc(k), AttributeValueDoc(k), TextDoc(k)} :
             k \in {n \in NameLengths : n >= XML_BUFFER_LENGTH}}

(***************************************************************************)
(* C12: the attribute name loop and the attribute value loop of            *)
(* readXMLAttribute and the text loop of readXMLNodeValue check the        *)
(* capacity before they write and fail with the buffer-full error: no read *)
(* of an oversized name, value or text writes at an index of strBuffer     *)
(* >= XML_BUFFER_LENGTH, so every such read returns to parseXMLFile.       *)
(***************************************************************************)
OversizedTextFails ==
    [][(pc \in {"start", "loop"} /\ file \in OversizedDocs)
         => pc' \in {"first", "tag"}]_vars

\* The stream ends before the '=' that ends an attribute name or before the
\* '"' that closes an attribute value.
EndsInsideAttribute ==
    \E pre \in {<<>>, <<"<", "r", ">">>} :
        file \in {pre \o DocCutInName, pre \o DocCutInValue}

(***************************************************************************)
(* C13: readXMLAttribute terminates with a failure when the end of the     *)
(* input is reached before the '=' that ends the attribute name or before  *)
(* the '"' that closes the attribute value, and never keeps reading past   *)
(* the end of the input: every tag read of such a stream returns to        *)
(* parseXMLFile, and the one that reaches the end of the stream returns no *)
(* tag.                                                                    *)
(***************************************************************************)
CutAttributeFails ==
    [][(pc \in {"start", "loop"} /\ EndsInsideAttribute)
         => (pc' \in {"first", "tag"} /\ (pos' = Len(file) => tag' = NoTag))]_vars

-----------------------------------------------------------------------------
(* The kind of a tag *)

\* The position of the character that follows the name of the tag that
\* starts at position p of f.
AfterName(f, p) ==
    LET a == IF fgetc(f, p) = "<" THEN p + 1 ELSE p
        b == IF fgetc(f, a) = "/" THEN a + 1 ELSE a
    IN  b + Len(NameFrom(f, p))

\* The kind the text t of a tag stands for: closing when the first character
\* after the optional '<' is '/', otherwise unique when t ends with "/>" and
\* opening when it ends with '>' not preceded by '/'.
KindOfText(t) ==
    LET first == IF t # <<>> /\ t[1] = "<" THEN 2 ELSE 1
        n     == Len(t)
    IN  IF first <= n /\ t[first] = "/" THEN "CLOSING"
        ELSE IF n >= 2 /\ t[n - 1] = "/" /\ t[n] = ">" THEN "UNIQUE"
        ELSE IF n >= 1 /\ t[n] = ">" THEN "OPENING"
        ELSE "UNKNOWN"

(***************************************************************************)
(* C14: every tag that readXMLTag returns is opening, closing or unique,   *)
(* never unknown: closing iff the first character after the optional '<'   *)
(* is '/', otherwise unique iff the tag ends with "/>" and opening iff it  *)
(* ends with '>' not preceded by '/', with or without attributes; and a    *)
(* '/' after the name that is not immediately followed by '>' makes the    *)
(* read fail.                                                              *)
(***************************************************************************)
TagKindFollowsText ==
    [][TagReadStep =>
         /\ tag' # NoTag =>
              /\ tag'.type \in {"OPENING", "CLOSING", "UNIQUE"}
              /\ tag'.type = KindOfText(Slice(file, TagReadAt + 1, pos'))
         /\ (/\ fgetc(file, AfterName(file, TagReadAt)) = "/"
             /\ fgetc(file, AfterName(file, TagReadAt) + 1) # ">")
              => tag' = NoTag]_vars

-----------------------------------------------------------------------------
(* The first tag and failures of parseXMLFile *)

\* The name and value of every attribute of the list that starts at a.
AttributePairs(as, a) ==
    {<<as[i].name, as[i].value>> : i \in Range(AttributeList(as, a, Len(as)))}

LiveAttributes == {a \in 1..Len(attrs) : attrs[a].live}

(***************************************************************************)
(* C15: when the first tag read by parseXMLFile is a unique tag, the       *)
(* result is a tree of one node: the node has the name and the attributes  *)
(* of the tag, no value, no child and no parent, and parseXMLFile returns  *)
(* without reading any further.  <a k="v"/> gives a node a with the one    *)
(* attribute k of value v.                                                 *)
(***************************************************************************)
UniqueFirstTagIsTheTree ==
    [][(pc = "first" /\ tag.type = "UNIQUE") =>
         /\ pc' = "done"
         /\ pos' = pos
         /\ result' # NULL
         /\ Live' = {result'}
         /\ nodes'[result'].name = tag.name
         /\ nodes'[result'].value = NullStr
         /\ nodes'[result'].parent = NULL
         /\ nodes'[result'].first = NULL
         /\ nodes'[result'].last = NULL
         /\ nodes'[result'].cc = 0
         /\ AttributePairs(attrs', nodes'[result'].attr) = AttributePairs(attrs, tag.attr)
         /\ Len(AttributesOf(result)') = Len(AttributeList(attrs, tag.attr, Len(attrs)))
         /\ LiveAttributes' = Range(AttributesOf(result)')
         /\ file \in {DocUniqueRoot, DocUniqueRootThenTag} =>
              /\ nodes'[result'].name = <<"a">>
              /\ AttributeNames(result)' = <<<<"k">>>>
              /\ AttributeValues(result)' = <<<<"v">>>>]_vars

\* <a k="v"/><b> has been parsed: the tree is the node a, and <b> has not
\* been read.
UniqueRootReturned ==
    /\ file = DocUniqueRootThenTag
    /\ Parsed
    /\ Live = {result}
    /\ AttributeNames(result) = <<<<"k">>>>
    /\ pos = Len(DocUniqueRoot)

(***************************************************************************)
(* C16: if the first tag read by parseXMLFile is a closing tag, parsing    *)
(* fails: no node is created, the tag is destroyed and no tree is          *)
(* returned.                                                               *)
(***************************************************************************)
ClosingFirstTagFails ==
    [][(pc = "first" /\ tag.type = "CLOSING") =>
         /\ pc' = "done"
         /\ result' = NULL
         /\ nodes' = <<>>
         /\ tag' = NoTag
         /\ LiveAttributes' = {}
         /\ log' = log \o <<"parse: first tag is a closing tag">>]_vars

\* </a><a> has been given to parseXMLFile, which returned NULL after the
\* first tag.
ClosingFirstTagRefused ==
    /\ file = <<"<", "/", "a", ">", "<", "a", ">">>
    /\ pc = "done"
    /\ result = NULL
    /\ pos = 4
    /\ log = <<"parse: first tag is a closing tag">>

\* readXMLTag returned NULL while a node was open.
TagReadFailedInLoop == \E i \in 1..Len(log) : log[i] = "parse: no tag remaining"

(***************************************************************************)
(* C17: if readXMLTag fails while a node is open, parseXMLFile returns no  *)
(* tree, and every node created during the parse has been destroyed        *)
(* together with its attributes: no node, attribute or tag survives.       *)
(***************************************************************************)
FailedParseLeavesNothing ==
    (pc = "done" /\ TagReadFailedInLoop) =>
        /\ result = NULL
        /\ Live = {}
        /\ LiveAttributes = {}
        /\ tag = NoTag

\* <b x="1" y="2"><a> and the end of the stream: two nodes and two
\* attributes were created, and all of them are gone.
OpenNodesDestroyed ==
    /\ pc = "done"
    /\ TagReadFailedInLoop
    /\ Len(nodes) = 2
    /\ Len(attrs) = 2
    /\ Live = {}
    /\ LiveAttributes = {}

-----------------------------------------------------------------------------
(* Typed accessors *)

TypedAccessors == {"getXMLString", "getXMLInt", "getXMLBool", "getXMLDouble"}

\* What the typed accessor of the last call handed back.
Handed ==
    IF q.op = "getXMLString" THEN q.value
    ELSE IF q.op = "getXMLDouble" THEN q.dbl
    ELSE q.int

(***************************************************************************)
(* C18: getXMLString, getXMLInt, getXMLBool and getXMLDouble return the    *)
(* default of the caller whenever the path resolves to nothing: a missing  *)
(* node, a missing attribute, a node without a text value, or a path that  *)
(* ends without ':' or '$'.                                                *)
(***************************************************************************)
DefaultWhenNothingResolves ==
    (q.op \in TypedAccessors /\ Meaning(q.query) = NullStr)
    => q.st = "ok" /\ Handed = q.default

\* getXMLInt was asked for the text of a node that has none, with the
\* default 7, and handed 7 back.
DefaultForNodeWithoutValue ==
    /\ Parsed
    /\ q.op = "getXMLInt"
    /\ q.query.end = "$"
    /\ Resolve(result, q.query.segs) # NULL
    /\ nodes[Resolve(result, q.query.segs)].value = NullStr
    /\ q.default = 7
    /\ q.int = 7

(***************************************************************************)
(* C19: getXMLBool returns 1 exactly when the text the path resolves to    *)
(* equals "true", 0 exactly when it equals "false", and the default of the *)
(* caller for every other text.                                            *)
(***************************************************************************)
BoolIsTrueOrFalse ==
    (q.op = "getXMLBool" /\ Meaning(q.query) # NullStr)
    => /\ q.st = "ok"
       /\ q.int = IF Meaning(q.query) = <<"t", "r", "u", "e">> THEN 1
                  ELSE IF Meaning(q.query) = <<"f", "a", "l", "s", "e">> THEN 0
                  ELSE q.default

\* o:t, which is "true", has been asked with the default 7 and gave 1.
TrueGivesOne ==
    /\ file = DocFlags
    /\ Parsed
    /\ q.op = "getXMLBool"
    /\ q.query = Flag("t")
    /\ q.default = 7
    /\ q.int = 1

-----------------------------------------------------------------------------
(* The first line *)

\* Where the first line of f ends: at its first line feed, or at the end of
\* the stream when it has none.
FirstLineEnd(f) ==
    LET S == {i \in 1..Len(f) : f[i] = "\n"}
    IN  IF S = {} THEN Len(f) ELSE Least(S)

\* fopen succeeded in the step.
Opened == log' = <<>> \/ log'[1] # "file: can't open"

(***************************************************************************)
(* C20: loadXMLFile parses the stream that follows the first line whether  *)
(* or not that line equals the XML declaration: whatever                   *)
(* checkFirstLineXMLFile returns, parseXMLFile is run, and it is run on    *)
(* what follows the first line.                                            *)
(***************************************************************************)
LoadParsesAfterFirstLine ==
    [][(pc = "load" /\ Opened) =>
         /\ pc' = "start"
         /\ pos' = FirstLineEnd(file)
         /\ UNCHANGED <<file, nodes, attrs, tag, root, current, result, stack>>]_vars

-----------------------------------------------------------------------------
(* The value of a node *)

(***************************************************************************)
(* C21: while the tree is built the value of a node is set at most once:   *)
(* once a node has a value, no step of parseXMLFile changes it, whatever   *)
(* text follows one of its children (the y of <a>x<b/>y</a>).              *)
(***************************************************************************)
ValueSetOnce ==
    [][\A n \in Live :
         (pc = "loop" /\ nodes[n].value # NullStr /\ n \in Live')
           => nodes'[n].value = nodes[n].value]_vars

\* The position of the first character after p that lies in '!'..'~', and
\* the position of the first '<', line feed or carriage return after s; 0
\* when the stream holds none.
ValueStart(f, p) ==
    LET S == {i \in (p + 1)..Len(f) : Ord(f[i]) >= Ord("!") /\ Ord(f[i]) <= Ord("~")}
    IN  IF S = {} THEN 0 ELSE CHOOSE i \in S : \A j \in S : i <= j
ValueStop(f, s) ==
    LET S == {i \in (s + 1)..Len(f) : f[i] \in {"<", "\n", "\r"}}
    IN  IF S = {} THEN 0 ELSE CHOOSE i \in S : \A j \in S : i <= j

\* c lies in ' '..'~'.
FromSpaceToTilde(c) == Ord(c) >= Ord(" ") /\ Ord(c) <= Ord("~")

\* The text of the stream from s up to the line end or '<' at e, without
\* the characters outside ' '..'~'.
TextBetween(f, s, e) == SelectSeq(Slice(f, s, e - 1), FromSpaceToTilde)

(***************************************************************************)
(* C22: readXMLNodeValue skips the characters outside '!'..'~', starts the *)
(* value at the first character in that range, appends every character in  *)
(* ' '..'~' up to the first '<', line feed or carriage return, and stores  *)
(* the result as the value of the node; when '<' comes before any          *)
(* character in '!'..'~' the value of the node is left as it was and no    *)
(* error is logged.                                                        *)
(***************************************************************************)
TextBecomesValue ==
    [][pc = "loop" =>
         /\ (ValueStart(file, pos) # 0 /\ file[ValueStart(file, pos)] = "<")
              => /\ nodes'[current].value = nodes[current].value
                 /\ \A i \in (Len(log) + 1)..Len(log') : log'[i] # "value: reached EOF"
         /\ (/\ ValueStart(file, pos) # 0
             /\ file[ValueStart(file, pos)] # "<"
             /\ ValueStop(file, ValueStart(file, pos)) # 0)
              => nodes'[current].value =
                   TextBetween(file, ValueStart(file, pos),
                               ValueStop(file, ValueStart(file, pos)))]_vars

\* The next turn of the loop reads a text that a line feed or a carriage
\* return ends, with only spaces, and at least one, between the line end and
\* the next '<'; the text fits in strBuffer.
SpacesBeforeNextTag ==
    LET s == ValueStart(file, pos)
        e == IF s = 0 THEN 0 ELSE ValueStop(file, s)
        t == IF e = 0 THEN 0 ELSE FirstAt(file, e, "<")
    IN  /\ pc = "loop"
        /\ s # 0 /\ file[s] # "<"
        /\ e # 0 /\ file[e] # "<"
        /\ t > e + 1
        /\ \A i \in (e + 1)..(t - 1) : file[i] = " "
        /\ Len(TextBetween(file, s, e)) < XML_BUFFER_LENGTH

\* The position of the '<' of the next tag in that case.
NextTagAt == FirstAt(file, ValueStop(file, ValueStart(file, pos)), "<")

(***************************************************************************)
(* C23: white space between a text and the next tag does not affect the    *)
(* parse: when a line feed or carriage return ends the text and spaces     *)
(* precede the next '<', the tag that is read next is the tag that starts  *)
(* at that '<', up to its '>'; <a>hi\n  <b/></a> gives the unique tag b    *)
(* as <a>hi<b/></a> does.                                                  *)
(***************************************************************************)
SpacesBeforeTagIgnored ==
    [][SpacesBeforeNextTag =>
         /\ pc' = "tag"
         /\ tag' # NoTag
         /\ tag'.name = NameFrom(file, NextTagAt - 1)
         /\ pos' = FirstAt(file, NextTagAt, ">")
         /\ file = DocTextThenSpaces =>
              (tag'.name = <<"b">> /\ tag'.type = "UNIQUE")]_vars

-----------------------------------------------------------------------------
(* The cursor of parseXMLFile *)

\* n, its parent, the parent of its parent, and so on, at most k nodes.
RECURSIVE ParentChain(_, _, _)
ParentChain(ns, n, k) ==
    IF n = NULL \/ k = 0 THEN <<>>
    ELSE <<n>> \o ParentChain(ns, ns[n].parent, k - 1)

\* The kinds of the tags read from position p to the read position, in the
\* order they were read; text is read before every tag but the first.
RECURSIVE TagKinds(_, _)
TagKinds(p, first) ==
    LET from == IF first THEN p ELSE readXMLNodeValue(nodes, root, file, p).pos
        r    == readXMLTag(file, from, attrs)
    IN  IF p >= pos \/ r.st = "ub" \/ r.tag = NoTag THEN <<>>
        ELSE <<r.tag.type>> \o TagKinds(r.pos, FALSE)

\* The number of tags of kind k consumed so far.
Consumed(k) == Len(SelectSeq(TagKinds(0, TRUE), LAMBDA t : t = k))

(***************************************************************************)
(* C24: while parseXMLFile is in its loop the cursor is a live node of the *)
(* tree whose parent chain ends at the root, as many nodes long as there   *)
(* are more opening than closing tags consumed; a tree is returned by the  *)
(* loop only with the cursor on the root and as many closing as opening    *)
(* tags consumed, and the final test root != current never fails.          *)
(***************************************************************************)
CursorUnderRoot ==
    /\ pc \in {"loop", "tag"} =>
         LET chain == ParentChain(nodes, current, Len(nodes) + 1)
         IN  /\ chain # <<>>
             /\ Len(chain) <= Len(nodes)
             /\ chain[Len(chain)] = root
             /\ \A i \in 1..Len(chain) : nodes[chain[i]].live
             /\ pc = "loop" =>
                  Len(chain) = Consumed("OPENING") - Consumed("CLOSING")
    /\ (Parsed /\ current # NULL) =>
         /\ current = root
         /\ result = root
         /\ Consumed("CLOSING") = Consumed("OPENING")
    /\ \A i \in 1..Len(log) : log[i] # "parse: last closed node isn't root"

\* <a><b>text</b></a> has been parsed: two opening and two closing tags
\* were consumed and the loop ended on the root.
LoopEndedOnRoot ==
    /\ file = DocNesting
    /\ Parsed
    /\ current = root
    /\ Consumed("OPENING") = 2
    /\ Consumed("CLOSING") = 2

-----------------------------------------------------------------------------
(* Closing tags *)

\* The tree under node n: names, values, attributes and children in order.
RECURSIVE Tree(_, _, _)
Tree(ns, as, n) ==
    LET al == AttributeList(as, ns[n].attr, Len(as))
        ch == Children(ns, n)
    IN  [name       |-> ns[n].name,
         value      |-> ns[n].value,
         attributes |-> [i \in 1..Len(al) |-> <<as[al[i]].name, as[al[i]].value>>],
         children   |-> [i \in 1..Len(ch) |-> Tree(ns, as, ch[i])]]

\* A node without value, attribute or child, and a node a with one such
\* child b.
Leaf(name) == [name |-> name, value |-> NullStr, attributes |-> <<>>, children |-> <<>>]
TreeAB == [Leaf(<<"a">>) EXCEPT !.children = <<Leaf(<<"b">>)>>]

(***************************************************************************)
(* C25: parseXMLFile never compares the name of a closing tag with the     *)
(* name of the node it closes.  Whatever its name, a closing tag changes   *)
(* no node and logs nothing: it moves the cursor to its parent, or ends    *)
(* the parse with the root as result when the cursor has no parent.        *)
(* <a><b></a></b> gives the tree of <a><b></b></a>, and <a></b> the tree   *)
(* of <a></a>.                                                             *)
(***************************************************************************)
ClosingTagClosesCursor ==
    [][(pc = "tag" /\ tag # NoTag /\ tag.type = "CLOSING") =>
         /\ nodes' = nodes
         /\ log' = log
         /\ IF nodes[current].parent # NULL
            THEN pc' = "loop" /\ current' = nodes[current].parent
            ELSE pc' = "done" /\ result' = root /\ root # NULL
         /\ (pc' = "done" /\ file \in {DocCrossedClosings, DocNestedEmpty})
              => Tree(nodes', attrs', result') = TreeAB
         /\ (pc' = "done" /\ file \in {DocClosedByOther, DocClosedByItself})
              => Tree(nodes', attrs', result') = Leaf(<<"a">>)]_vars

\* <a><b></a></b> has been parsed: </a> closed b and </b> closed a.
CrossedClosingsParsed ==
    /\ file = DocCrossedClosings
    /\ Parsed
    /\ pos = Len(file)
    /\ Tree(nodes, attrs, result) = TreeAB

-----------------------------------------------------------------------------
(* Teardown *)

\* The six references a node holds to other nodes.
References(n) ==
    {nodes[n].parent, nodes[n].previous, nodes[n].next,
     nodes[n].first, nodes[n].current, nodes[n].last} \ {NULL}

\* The children of n are all different, and current is one of them.
ChildrenDistinct(n) ==
    LET ch == Children(nodes, n)
    IN  /\ \A i, j \in 1..Len(ch) : ch[i] = ch[j] => i = j
        /\ nodes[n].current \in Range(ch) \cup {NULL}

(***************************************************************************)
(* C26: destroyXMLNode destroys the children of a node before the node and *)
(* unlinks the node from its parent and siblings before freeing it: at     *)
(* every step of a teardown no reference (parent, previous, next, first,   *)
(* current, last) of a node not yet freed leads to a freed node, a freed   *)
(* node had no child left, and every node not yet freed keeps a consistent *)
(* child list.                                                             *)
(***************************************************************************)
TeardownLeavesNoDanglingReference ==
    /\ \A n \in Live :
         /\ References(n) \subseteq Live
         /\ ChildListConsistent(nodes, n)
         /\ ChildrenDistinct(n)
    /\ \A n \in (1..Len(nodes)) \ Live : nodes[n].cc = 0 /\ nodes[n].parent = NULL

\* In the middle of a teardown: a child has been freed, and its parent still
\* has another child.
SiblingDestroyedFirst ==
    /\ pc = "destroy"
    /\ Live # 1..Len(nodes)
    /\ \E n \in Live : nodes[n].cc > 0

-----------------------------------------------------------------------------
(* The lifetime of a tag *)

\* The live attributes that no live node owns.
AttributesOutsideNodes ==
    LiveAttributes \ UNION {Range(AttributesOf(n)) : n \in Live}

(***************************************************************************)
(* C27: at most one tag exists at any point of parseXMLFile.  The tag that *)
(* readXMLTag returned is destroyed before readXMLTag is called again and  *)
(* before parseXMLFile returns, with a tree or without: no tag is held     *)
(* outside the handling of the tag just read, and the only attributes that *)
(* no node owns are those of that one tag.                                 *)
(***************************************************************************)
OneTagAtATime ==
    /\ pc \notin {"first", "tag"} => tag = NoTag
    /\ pc \in {"start", "loop", "first", "tag", "destroy", "done"} =>
         AttributesOutsideNodes = Range(AttributeList(attrs, tag.attr, Len(attrs)))

\* parseXMLFile has returned without a tree after tags with attributes were
\* read and nodes were made of them.
TagsDestroyedOnFailure ==
    /\ pc = "done"
    /\ result = NULL
    /\ Len(nodes) >= 2
    /\ Len(attrs) >= 2
    /\ tag = NoTag

-----------------------------------------------------------------------------
(* From the tag to the node *)

(***************************************************************************)
(* C28: initXMLNodeFromXMLTag moves every attribute of the tag to the      *)
(* node.  It leaves the tag's list empty; the node made of an opening or   *)
(* unique tag owns exactly the attributes the tag had, each once, with     *)
(* the same names and values; and destroyXMLTag, which follows, frees none *)
(* of them.                                                                *)
(***************************************************************************)
AttributesMoveToNode ==
    [][(pc \in {"first", "tag"} /\ tag.type \in {"OPENING", "UNIQUE"}) =>
         LET n   == Len(nodes) + 1
             had == AttributeList(attrs, tag.attr, Len(attrs))
         IN  /\ initXMLNodeFromXMLTag(createXMLNode(nodes), attrs, n, tag).tag.attr = NULL
             /\ Len(nodes') = n
             /\ nodes'[n].name = tag.name
             /\ Len(AttributeList(attrs', nodes'[n].attr, Len(attrs'))) = Len(had)
             /\ Range(AttributeList(attrs', nodes'[n].attr, Len(attrs'))) = Range(had)
             /\ \A a \in Range(had) :
                  /\ attrs'[a].live
                  /\ attrs'[a].name = attrs[a].name
                  /\ attrs'[a].value = attrs[a].value]_vars

\* A node made of a tag with two attributes holds both, alive, after the
\* tag was destroyed.
NodeOwnsTwoAttributes ==
    /\ pc = "loop"
    /\ tag = NoTag
    /\ \E n \in Live :
         /\ Len(AttributesOf(n)) = 2
         /\ Range(AttributesOf(n)) \subseteq LiveAttributes

-----------------------------------------------------------------------------
(* Linking and unlinking nodes *)

\* The node that the call just made could not link or unlink: child has a
\* parent or a sibling (addXMLNodeToParent), or has no parent
\* (deleteXMLNodeFromParent).
RefusedCall ==
    /\ q'.op \in {"addXMLNodeToParent", "deleteXMLNodeFromParent"}
    /\ q'.child # NULL
    /\ IF q'.op = "addXMLNodeToParent"
       THEN \/ nodes[q'.child].parent # NULL
            \/ nodes[q'.child].previous # NULL
            \/ nodes[q'.child].next # NULL
       ELSE nodes[q'.child].parent = NULL

\* No node is found in the child lists of two nodes.
InOneChildList ==
    \A n \in 1..Len(nodes) :
        Cardinality({p \in 1..Len(nodes) : n \in Range(Children(nodes, p))}) <= 1

(***************************************************************************)
(* C29: a node is linked under at most one parent at a time: no node is    *)
(* ever in the child lists of two nodes, and addXMLNodeToParent called     *)
(* with a child that already has a parent or a sibling, and                *)
(* deleteXMLNodeFromParent called on a node without a parent, change no    *)
(* field of any node.                                                      *)
(***************************************************************************)
RefusedCallsChangeNothing ==
    [][/\ RefusedCall => nodes' = nodes
       /\ InOneChildList']_vars

\* addXMLNodeToParent was called to put under a second parent a child that
\* has a parent: the child is where it was.
SecondParentRefused ==
    /\ q.op = "addXMLNodeToParent"
    /\ q.parent # NULL /\ q.child # NULL
    /\ nodes[q.child].parent \notin {NULL, q.parent}
    /\ \E n \in 1..Len(nodes) :
         nodes[n].parent = NULL /\ nodes[n].previous = NULL /\ nodes[n].next = NULL

\* The nodes met by following parent from n, n itself left out.
Ancestors(n) == Range(ParentChain(nodes, nodes[n].parent, Len(nodes)))

(***************************************************************************)
(* C30: after any sequence of addXMLNodeToParent and                       *)
(* deleteXMLNodeFromParent calls on initialized nodes no node is its own   *)
(* ancestor: following parent from a node never leads back to it.          *)
(***************************************************************************)
NoNodeIsItsOwnAncestor ==
    \A n \in 1..Len(nodes) : n \notin Ancestors(n)

-----------------------------------------------------------------------------
(* Child lists under direct calls *)

\* The child list of n: cc is the length of the chain that next makes from
\* first, last is the end of that chain, first, last and current are NULL
\* exactly when cc = 0, and current is otherwise one of the children.
ChildListOf(n) ==
    LET ch == Children(nodes, n)
    IN  /\ nodes[n].cc = Len(ch)
        /\ nodes[n].last = (IF ch = <<>> THEN NULL ELSE ch[Len(ch)])
        /\ nodes[n].cc = 0 <=>
             (nodes[n].first = NULL /\ nodes[n].last = NULL /\ nodes[n].current = NULL)
        /\ nodes[n].cc # 0 => nodes[n].current \in Range(ch)

(***************************************************************************)
(* C31: after any sequence of addXMLNodeToParent and                       *)
(* deleteXMLNodeFromParent calls on initialized nodes the child list of    *)
(* every node is consistent: cc is the length of the next-chain from       *)
(* first, last is the final node of that chain, first, last and current    *)
(* are all NULL exactly when cc = 0, otherwise current is one of the       *)
(* children; and the node that deleteXMLNodeFromParent has just removed    *)
(* has no parent, no previous and no next.                                 *)
(***************************************************************************)
ChildListsStayConsistent ==
    /\ \A n \in 1..Len(nodes) : ChildListOf(n)
    /\ (q.op = "deleteXMLNodeFromParent" /\ q.child # NULL) =>
         /\ nodes[q.child].parent = NULL
         /\ nodes[q.child].previous = NULL
         /\ nodes[q.child].next = NULL

\* deleteXMLNodeFromParent has just removed one of two children: the other
\* child is the whole list of the parent.
OneOfTwoChildrenRemoved ==
    /\ q.op = "deleteXMLNodeFromParent"
    /\ q.child # NULL /\ q.was \notin {NULL, q.child}
    /\ nodes[q.was].cc = 1
    /\ nodes[q.was].first # q.child
    /\ nodes[q.was].current = nodes[q.was].first

-----------------------------------------------------------------------------
(* Paths without predicates *)

\* getXMLNode has been given a path s1/s2/.../sN none of whose segments has
\* a predicate.
PlainPathQueried ==
    /\ q.op = "getXMLNode"
    /\ \A i \in 1..Len(q.query) : ~q.query[i].pred

\* The names s1, ..., sN of the path.
SegmentNames == [i \in 1..Len(q.query) |-> q.query[i].name]

(***************************************************************************)
(* C32: getXMLNode on a path s1/s2/.../sN without predicates returns the   *)
(* node reached by taking the first node named s1 among the given node and *)
(* the siblings after it, then the first child of that node named s2, and  *)
(* so on: the node matched by sN at the end of the path, and not-found as  *)
(* soon as a level has no node of the segment's name.                      *)
(***************************************************************************)
PlainPathResolves ==
    PlainPathQueried =>
        (q.st = "ok" /\ q.node = Resolve(q.start, SegmentNames))

\* At some level of the path the first sibling named as the segment has no
\* child named as the next segment, and a later sibling of that name has one.
RECURSIVE OnlyLaterSiblingMatches(_, _)
OnlyLaterSiblingMatches(n, segs) ==
    /\ Len(segs) >= 2
    /\ FirstNamed(n, segs[1]) # NULL
    /\ IF FirstNamed(nodes[FirstNamed(n, segs[1])].first, segs[2]) = NULL
       THEN \E m \in Range(Chain(nodes, n, Len(nodes))) :
                /\ nodes[m].name = segs[1]
                /\ FirstNamed(nodes[m].first, segs[2]) # NULL
       ELSE OnlyLaterSiblingMatches(nodes[FirstNamed(n, segs[1])].first, Tail(segs))

(***************************************************************************)
(* C33: path resolution never backtracks.  At each level getXMLValue and   *)
(* getXMLNode commit to the first sibling whose name matches the segment:  *)
(* when that node lacks a match for the next segment the path is not       *)
(* found, even if a later sibling of the same name has one.                *)
(***************************************************************************)
NeverBacktracks ==
    /\ (q.op = "getXMLValue" /\ OnlyLaterSiblingMatches(q.start, q.query.segs))
         => q.value = NullStr
    /\ (PlainPathQueried /\ OnlyLaterSiblingMatches(q.start, SegmentNames))
         => q.node = NULL

-----------------------------------------------------------------------------
(* Path segments and the scratch buffers *)

\* The pieces a query path is cut into: its node names and, by kind, its
\* attribute name or the attribute names and values of its predicates.
Pieces ==
    IF q.op = "none" \/ q.op \notin {"getXMLValue", "getXMLNode"} THEN {}
    ELSE IF q.op = "getXMLValue"
         THEN {q.query.segs[i] : i \in 1..Len(q.query.segs)} \cup {q.query.attr}
    ELSE UNION {{q.query[i].name, q.query[i].attr, q.query[i].value} :
                    i \in 1..Len(q.query)}

\* The query had a piece that, with its terminating NUL, does not fit a
\* scratch buffer, and it was asked of a node.
OversizedPiece ==
    /\ q.op \in {"getXMLValue", "getXMLNode"}
    /\ q.start # NULL
    /\ \E p \in Pieces : Len(p) >= XML_BUFFER_LENGTH

\* C34: a query with a node name, attribute name or predicate attribute name
\* or value that does not fit the scratch buffer makes getXMLValue and
\* getXMLNode fail, returning no value and no node, and nothing is written
\* at an index of XML_BUFFER_LENGTH or more of a scratch buffer.
OversizedPieceFails ==
    OversizedPiece =>
        /\ q.st = "ok"
        /\ q.value = NullStr
        /\ q.node = NULL

-----------------------------------------------------------------------------
(* Termination of parseXMLFile *)

\* The position from which the next call of readXMLTag reads.
TagReadFrom ==
    IF pc = "loop" THEN readXMLNodeValue(nodes, current, file, pos).pos ELSE pos

\* readXMLTag reading f from position p calls readXMLAttribute: the name it
\* reads is not that of a closing tag, fits the buffer and ends on a space.
CallsReadXMLAttribute(f, p) ==
    LET c0 == fgetc(f, p)
        p0 == Advance(f, p)
        c1 == IF c0 = "<" THEN fgetc(f, p0) ELSE c0
        p1 == IF c0 = "<" THEN Advance(f, p0) ELSE p0
        nm == NameLoop(f, c1, p1)
    IN  c1 # "/" /\ ~nm.full /\ nm.c = " "

\* The step parseXMLFile is about to take invokes readXMLAttribute.
AttributeRead ==
    \/ pc = "start" /\ CallsReadXMLAttribute(file, pos)
    \/ /\ pc = "loop"
       /\ readXMLNodeValue(nodes, current, file, pos).st # "ub"
       /\ CallsReadXMLAttribute(file, TagReadFrom)

\* C35: on every input on which readXMLAttribute is never invoked,
\* parseXMLFile terminates and returns, a tree or NULL: every run reaches
\* the return of parseXMLFile unless it comes to a call of readXMLAttribute.
ParseTerminates == <>(pc = "done" \/ AttributeRead)

-----------------------------------------------------------------------------
(* Queries on a document that failed to parse *)

\* A value was asked of a document whose root is absent: parseXMLFile had
\* returned NULL.
AbsentRootQueried ==
    /\ q.op \in {"getXMLValue", "getXMLString", "getXMLInt", "getXMLBool",
                 "getXMLDouble"}
    /\ q.start = NULL

\* C36: on the document of a failed parse, whose root is absent, every call
\* of getXMLValue returns NULL and every typed accessor returns the default
\* it was given, and the call returns normally: no missing node is
\* dereferenced and nothing else stops it.
AbsentRootGivesDefaults ==
    AbsentRootQueried =>
        /\ q.st = "ok"
        /\ q.op = "getXMLValue" => q.value = NullStr
        /\ q.op = "getXMLString" => q.value = q.default
        /\ q.op \in {"getXMLInt", "getXMLBool"} => q.int = q.default
        /\ q.op = "getXMLDouble" => q.dbl = q.default

=============================================================================
